---- MODULE Spec2Model ----
(***************************************************************************)
(* A model of the NZ road code test scraper: the orchestration of         *)
(* Scraper.scrape over a list of chapter URLs, the transactional store    *)
(* session it works in (DBHelper.create_session, ChapterService), and the *)
(* explanation merge of Scraper._append_explanations.                     *)
(***************************************************************************)
EXTENDS Integers, Sequences, FiniteSets, TLC

(***************************************************************************)
(* Bounds of the model.                                                    *)
(***************************************************************************)
\* longest list of test URLs handed to scrape
MaxUrls == 2
\* most questions of a chapter handed to the merge
MaxQuestions == 2
\* most answers of a question handed to the merge
MaxAnswers == 2
\* most results cards on the results page handed to the merge
MaxCards == 3
\* most bytes of an image body
MaxBytes == 2
\* most card lists on the landing page
MaxGroups == 2
\* most cards of a card list
MaxLinks == 2

\* NetworkConfig.max_retries
max_retries == 3

(***************************************************************************)
(* Data model (schema.py): Optional[str] is a sequence of length 0 or 1.   *)
(***************************************************************************)
None == << >>

Some(text) == << text >>

Range(s) == { s[i] : i \in 1..Len(s) }

AnswerSchema(id, answer, is_correct) ==
    [id |-> id, answer |-> answer, is_correct_answer |-> is_correct,
     explanation |-> None]

QuestionSchema(id, answers) == [id |-> id, answers |-> answers]

ChapterSchema(id, title, questions) ==
    [id |-> id, title |-> title, questions |-> questions]

(***************************************************************************)
(* The site: what each chapter URL serves.  URL 3 serves a chapter whose   *)
(* question reuses question id 10 of chapter 1 (the ids are assigned by    *)
(* the site); URL 4 serves a chapter without questions; URL 5 serves a     *)
(* chapter whose second question has no answers; the page of URL 6 lacks   *)
(* the embedded JSON variable and that of URL 7 holds JSON that does not   *)
(* parse.                                                                  *)
(***************************************************************************)
Urls == {1, 2, 3, 4, 5, 6, 7}

\* what the page source of a chapter URL holds
PageSource(url) ==
    CASE url = 6 -> "no_variable"
      [] url = 7 -> "bad_json"
      [] OTHER   -> "json"

\* an extraction that takes any page
GetTestChapterNeverFails(source) == FALSE

\* Extractor.get_test_chapter raises ExtractorError: the regular expression
\* finds no `window._rrltModuleContent = {...};` or json.loads raises
GetTestChapterFails(source) == source # "json"

SitePage(url) ==
    CASE url = 1 -> ChapterSchema(1, "T1",
                      << QuestionSchema(10, << AnswerSchema(100, "Yes", TRUE),
                                               AnswerSchema(101, "No", FALSE) >>) >>)
      [] url = 2 -> ChapterSchema(2, "T2",
                      << QuestionSchema(20, << AnswerSchema(200, "Left", FALSE),
                                               AnswerSchema(201, "Right", TRUE) >>),
                         QuestionSchema(21, << AnswerSchema(210, "Stop", TRUE) >>) >>)
      [] url = 3 -> ChapterSchema(3, "T3",
                      << QuestionSchema(10, << AnswerSchema(300, "Go", TRUE) >>) >>)
      [] url = 5 -> ChapterSchema(5, "T5",
                      << QuestionSchema(50, << AnswerSchema(500, "Up", FALSE) >>),
                         QuestionSchema(51, << >>) >>)
      [] OTHER   -> ChapterSchema(url, "T4", << >>)

\* the text of the i-th results card
CardText(i) == IF i = 1 THEN "because yes" ELSE "because " \o ToString(i)

\* the results page of a finished test: one card per question, in order
SiteCards(ch) == [i \in 1..Len(ch.questions) |-> CardText(i)]

UrlLists == UNION { [1..n -> Urls] : n \in 0..MaxUrls }

NoChapter == ChapterSchema(0, "", << >>)

(***************************************************************************)
(* The store: the three relations of model.py, as sets of rows.            *)
(***************************************************************************)
EmptyRows == [chapters |-> {}, questions |-> {}, answers |-> {}]

RowsUnion(a, b) ==
    [chapters  |-> a.chapters \cup b.chapters,
     questions |-> a.questions \cup b.questions,
     answers   |-> a.answers \cup b.answers]

\* ChapterService._create_answer
CreateAnswer(a, question_id) ==
    [id |-> a.id, answer |-> a.answer, is_correct_answer |-> a.is_correct_answer,
     explanation |-> a.explanation, question_id |-> question_id]

\* ChapterService._create_question: the question row and its answers' rows
CreateQuestion(q, chapter_id) ==
    [questions |-> {[id |-> q.id, chapter_id |-> chapter_id]},
     answers   |-> { CreateAnswer(a, q.id) : a \in Range(q.answers) }]

\* a chapter converted without the cascade to its questions and answers
CreateChapterNoCascade(ch) ==
    [chapters  |-> {[id |-> ch.id, title |-> ch.title]},
     questions |-> {},
     answers   |-> {}]

\* ChapterService._create_chapter: the rows of a chapter and, by the
\* relationship cascade, of all its questions and answers
CreateChapter(ch) ==
    [chapters  |-> {[id |-> ch.id, title |-> ch.title]},
     questions |-> UNION { CreateQuestion(q, ch.id).questions : q \in Range(ch.questions) },
     answers   |-> UNION { CreateQuestion(q, ch.id).answers : q \in Range(ch.questions) }]

RECURSIVE PendingRows(_)
PendingRows(pend) ==
    IF pend = << >> THEN EmptyRows
    ELSE RowsUnion(CreateChapter(Head(pend)), PendingRows(Tail(pend)))

\* a primary key of rows a is already taken in rows b
PKTaken(a, b) ==
    \/ \E r \in a.chapters, s \in b.chapters : r.id = s.id
    \/ \E r \in a.questions, s \in b.questions : r.id = s.id
    \/ \E r \in a.answers, s \in b.answers : r.id = s.id

\* two different rows of one relation share a primary key
PKRepeated(a) ==
    \/ \E r, s \in a.chapters : r # s /\ r.id = s.id
    \/ \E r, s \in a.questions : r # s /\ r.id = s.id
    \/ \E r, s \in a.answers : r # s /\ r.id = s.id

\* Session.flush of the pending chapters into the open transaction fails
\* (IntegrityError / FlushError) when a primary key is taken or repeated
FlushFails(pend, t, d) ==
    \E k \in 1..Len(pend) :
        \/ PKRepeated(CreateChapter(pend[k]))
        \/ PKTaken(CreateChapter(pend[k]),
                   RowsUnion(RowsUnion(d, t), PendingRows(SubSeq(pend, 1, k - 1))))

\* an existence check that sees the committed rows alone, not those of the
\* session
ChapterExistsCommitted(chapter_id, t, d) ==
    \E r \in d.chapters : r.id = chapter_id

\* an existence check that never finds the chapter
ChapterExistsNever(chapter_id, t, d) == FALSE

\* ChapterService.chapter_exists: the query sees committed and flushed rows
ChapterExists(chapter_id, t, d) ==
    \E r \in d.chapters \cup t.chapters : r.id = chapter_id

\* ChapterService.get_chapter: the rows with that id (none: not found)
GetChapter(chapter_id, d) == { r \in d.chapters : r.id = chapter_id }

ChapterIds(d) == { r.id : r \in d.chapters }

(***************************************************************************)
(* Scraper._simulate_user_test_flow: the answer the simulation clicks.     *)
(***************************************************************************)
\* a truth test that nothing fails
TruthyAlways(opt) == TRUE

\* a Python truth test of an Optional[str]: None and "" are false
Truthy(opt) == opt # None /\ opt[1] # ""

\* next((a.answer for a in question.answers if not a.is_correct_answer), None)
WrongAnswer(q) ==
    IF \E k \in 1..Len(q.answers) : ~q.answers[k].is_correct_answer
    THEN LET k == CHOOSE j \in 1..Len(q.answers) :
                     /\ ~q.answers[j].is_correct_answer
                     /\ \A h \in 1..(j - 1) : q.answers[h].is_correct_answer
         IN  Some(q.answers[k].answer)
    ELSE None

AnswerToClick(q) ==
    IF ~Truthy(WrongAnswer(q)) /\ q.answers # << >>
    THEN Some(q.answers[1].answer)
    ELSE WrongAnswer(q)

(***************************************************************************)
(* Scraper._append_explanations on values: the merge of an explanation     *)
(* list into a copy of the chapter.                                        *)
(***************************************************************************)
\* index of next((ans for ans in question.answers if ans.is_correct_answer), None),
\* 0 for None
CorrectAnswerIndex(answers) ==
    IF \E k \in 1..Len(answers) : answers[k].is_correct_answer
    THEN CHOOSE j \in 1..Len(answers) :
             /\ answers[j].is_correct_answer
             /\ \A h \in 1..(j - 1) : ~answers[h].is_correct_answer
    ELSE 0

MergeQuestion(q, explanation) ==
    LET k == CorrectAnswerIndex(q.answers)
    IN  IF k = 0 THEN q
        ELSE [q EXCEPT !.answers[k].explanation = Some(explanation)]

AppendExplanationsValue(ch, expls) ==
    [ch EXCEPT !.questions =
        [i \in 1..Len(ch.questions) |->
            IF i <= Len(expls) THEN MergeQuestion(ch.questions[i], expls[i])
            ELSE ch.questions[i]]]

(***************************************************************************)
(* State.                                                                  *)
(***************************************************************************)
VARIABLES
    pc,              \* position of the run of Scraper.scrape
    urls,            \* test_urls of the run
    idx,             \* index of the URL the per-URL loop is at (from 1)
    chapter,         \* the chapter extracted for the current URL
    updated_chapter, \* the merged copy returned by _append_explanations
    explanations,    \* the explanation list extracted from the results page
    qi,              \* index of the question the simulation is at (from 1)
    log,             \* the steps taken for the current URL, in order
    db,              \* the committed rows of the store
    sess,            \* the session of the run: "closed", "active", "inactive"
    pending,         \* chapters added to the session and not flushed yet
    txn,             \* rows flushed in the session's open transaction
    dbAtRunStart,    \* history: the committed rows when the run began
    inserted,        \* history: ids of the chapters insert_chapter staged in the run
    failed,          \* history: indexes of the URLs whose processing raised
    storeFailed,     \* history: a store operation raised inside the loop of the run
    raised,          \* what made scrape raise ("none" while it has not)
    m_pc,            \* position of a call of _append_explanations
    heap,            \* the objects of that call: heap[ref] is the object at ref
    heap0,           \* history: the objects when the call began
    input,           \* the ref of the chapter the call is given
    copy,            \* the ref of updated_chapter (0 before the copy)
    cards,           \* the texts of the results cards on the page
    expl,            \* the explanation list of the call
    m_i,             \* the index of the merge loop (from 1)
    s_pc,            \* position of a call of _simulate_user_test_flow
    s_chapter,       \* the chapter that call is given
    s_qi,            \* the index of the question the call is at (from 1)
    s_clicks,        \* the clicks of the call on the page, in order
    s_error,         \* why the call raised ("none" while it has not)
    f_pc,            \* position of a call of download_to_base64
    f_url,           \* the image URL that call is given
    f_body,          \* the bytes the server sends when a request succeeds
    f_attempt,       \* the attempt the retry loop is at (from 1)
    f_history,       \* history: how each attempt made so far failed
    f_max_retries,   \* NetworkConfig.max_retries of the downloader
    f_sleeps,        \* history: the attempts after which the loop slept
    f_result,        \* what the call returned
    f_error,         \* the ImageDownloaderError the call raised
    e_pc,            \* position of a call of get_test_chapter
    e_page,          \* the page that call reads: its kind of source and its JSON
    e_qi,            \* the index of the raw question being built (from 1)
    e_built,         \* the questions built so far
    e_fetch,         \* history: how the image download of each built question went
    e_chapter,       \* the chapter the call returned
    d_pc,            \* position of a call of get_all_road_code_tests_url
    d_groups,        \* the card lists of the landing page, each a list of cards
    d_i,             \* the index of the card list the loop is at (from 1)
    d_urls,          \* the URLs appended so far
    x_pc,            \* position of a call of get_correct_answers_explanations
    x_cards,         \* the results cards of the page, each with its two lookups
    x_i,             \* the index of the card the loop is at (from 1)
    x_explanations,  \* the explanation list built so far
    x_log,           \* the log records the call wrote, in order
    x_suppressed,    \* history: the lookups whose exception suppress() swallowed
    b_pc,            \* position of an `async with Scraper()` block
    b_type,          \* browser_type of the Browser
    b_setup,         \* how the setup of Browser.page went ("none" while it runs)
    b_acquired,      \* the handles acquired, in the order of creation
    b_body,          \* how the body of the block ended ("none" before it has)
    b_todo,          \* the handles _cleanup still has to look at, in order
    b_closes,        \* history: the closes _cleanup called, in order
    b_log,           \* the log records of the block, in order
    b_outcome,       \* how the block ended ("none" while it has not)
    k_pc,            \* position of a call of _click_if_visible
    k_operation,     \* operation_name of the call
    k_retries,       \* retries of the call
    k_attempt,       \* attempt of the loop of the call (from 0)
    k_history,       \* history: how each attempt made so far went
    k_clicks,        \* history: the clicks the call made on the element
    k_error,         \* the class of the error the call raised ("none" if none)
    r_pc,            \* position of a call of a step of the loop through its decorators
    r_chain,         \* the step called
    r_stack,         \* error_cls of the decorators not yet left, the outermost first
    r_origin,        \* history: what the innermost function returned or raised
    r_result,        \* what is returned or raised at this level
    r_log,           \* the log records written on the way, in order
    i_sess,          \* the session of the ChapterService: "active" or "inactive"
    i_db,            \* the committed rows of the store
    i_txn,           \* rows flushed in the open transaction of the session
    i_pending,       \* chapters added to the session and not flushed yet
    i_last,          \* history: the last call, its result and the state before it
    c_pc,            \* position in create_session: "body", "commit", "except", "finally", "done"
    c_db,            \* the committed rows of the store
    c_txn,           \* the rows of the open transaction of the session
    c_before,        \* history: the committed rows when the session was created
    c_body,          \* history: how the body of the with block ended
    c_error,         \* the exception in flight
    c_calls,         \* history: the calls made on the session, in order
    c_outcome,       \* how the with block ended
    n_page,          \* Scraper._page: "None" or "page"
    n_cm,            \* Scraper._page_context_manager: "None" or "cm"
    n_life,          \* history: "new", "entered", "entry failed" or "exited"
    n_trace,         \* history: what was called on the Scraper and what it did, in order
    g_pc,            \* position in the navigation command
    g_command,       \* the command called, with its argument
    g_steps,         \* history: the calls made on the page and how each ended
    g_result         \* what the command gives so far: a return or an exception

scrapeVars == << pc, urls, idx, chapter, updated_chapter, explanations, qi, log,
                 db, sess, pending, txn, dbAtRunStart, inserted, failed,
                 storeFailed, raised >>

mergeVars == << m_pc, heap, heap0, input, copy, cards, expl, m_i >>

simVars == << s_pc, s_chapter, s_qi, s_clicks, s_error >>

fetchVars == << f_pc, f_url, f_body, f_attempt, f_history, f_max_retries,
               f_sleeps, f_result, f_error >>

extractVars == << e_pc, e_page, e_qi, e_built, e_fetch, e_chapter >>

discoverVars == << d_pc, d_groups, d_i, d_urls >>

explainVars == << x_pc, x_cards, x_i, x_explanations, x_log, x_suppressed >>

browserVars == << b_pc, b_type, b_setup, b_acquired, b_body, b_todo, b_closes, b_log, b_outcome >>

clickVars == << k_pc, k_operation, k_retries, k_attempt, k_history, k_clicks, k_error >>

raiseVars == << r_pc, r_chain, r_stack, r_origin, r_result, r_log >>

insertVars == << i_sess, i_db, i_txn, i_pending, i_last >>

sessionVars == << c_pc, c_db, c_txn, c_before, c_body, c_error, c_calls, c_outcome >>

contextVars == << n_page, n_cm, n_life, n_trace >>

navVars == << g_pc, g_command, g_steps, g_result >>

\* the variables of the calls of single methods on their own
unitVars == << mergeVars, simVars, fetchVars, extractVars, discoverVars,
               explainVars, browserVars, clickVars, raiseVars, insertVars,
               sessionVars, contextVars, navVars >>

\* all variables but those of the merge, of the simulation, of the
\* download, of the extraction, of the URL discovery
besideMerge == << scrapeVars, simVars, fetchVars, extractVars, discoverVars,
                  explainVars, browserVars, clickVars, raiseVars, insertVars,
                  sessionVars, contextVars, navVars >>

besideSim == << scrapeVars, mergeVars, fetchVars, extractVars, discoverVars,
                explainVars, browserVars, clickVars, raiseVars, insertVars,
                sessionVars, contextVars, navVars >>

besideFetch == << scrapeVars, mergeVars, simVars, extractVars, discoverVars,
                  explainVars, browserVars, clickVars, raiseVars, insertVars,
                  sessionVars, contextVars, navVars >>

besideExtract == << scrapeVars, mergeVars, simVars, fetchVars, discoverVars,
                    explainVars, browserVars, clickVars, raiseVars,
                    insertVars, sessionVars, contextVars, navVars >>

besideDiscover == << scrapeVars, mergeVars, simVars, fetchVars, extractVars,
                     explainVars, browserVars, clickVars, raiseVars,
                     insertVars, sessionVars, contextVars, navVars >>

besideExplain == << scrapeVars, mergeVars, simVars, fetchVars, extractVars,
                    discoverVars, browserVars, clickVars, raiseVars,
                    insertVars, sessionVars, contextVars, navVars >>

besideBrowser == << scrapeVars, mergeVars, simVars, fetchVars, extractVars,
                    discoverVars, explainVars, clickVars, raiseVars,
                    insertVars, sessionVars, contextVars, navVars >>

besideClick == << scrapeVars, mergeVars, simVars, fetchVars, extractVars,
                  discoverVars, explainVars, browserVars, raiseVars,
                  insertVars, sessionVars, contextVars, navVars >>

besideRaise == << scrapeVars, mergeVars, simVars, fetchVars, extractVars,
                  discoverVars, explainVars, browserVars, clickVars,
                  insertVars, sessionVars, contextVars, navVars >>

besideInsert == << scrapeVars, mergeVars, simVars, fetchVars, extractVars,
                   discoverVars, explainVars, browserVars, clickVars,
                   raiseVars, sessionVars, contextVars, navVars >>

besideSession == << scrapeVars, mergeVars, simVars, fetchVars, extractVars,
                    discoverVars, explainVars, browserVars, clickVars,
                    raiseVars, insertVars, contextVars, navVars >>

besideContext == << scrapeVars, mergeVars, simVars, fetchVars, extractVars,
                    discoverVars, explainVars, browserVars, clickVars,
                    raiseVars, insertVars, sessionVars, navVars >>

besideNav == << scrapeVars, mergeVars, simVars, fetchVars, extractVars,
                discoverVars, explainVars, browserVars, clickVars, raiseVars,
                insertVars, sessionVars, contextVars >>

vars == << scrapeVars, unitVars >>

InRun == pc \in {"loop", "navigated", "extracted", "checked", "question",
                 "answered", "simulated", "opened", "explained", "merged"}

Ended == pc \in {"returned", "raised", "interrupted"}

ScrapeInit ==
    /\ pc = "idle"
    /\ urls = << >>
    /\ idx = 1
    /\ chapter = NoChapter
    /\ updated_chapter = NoChapter
    /\ explanations = << >>
    /\ qi = 1
    /\ log = << >>
    /\ db = EmptyRows
    /\ sess = "closed"
    /\ pending = << >>
    /\ txn = EmptyRows
    /\ dbAtRunStart = db
    /\ inserted = {}
    /\ failed = {}
    /\ storeFailed = FALSE
    /\ raised = "none"

\* no call of the merge on its own is under way
MergeOff ==
    /\ m_pc = "off"
    /\ heap = << >>
    /\ heap0 = << >>
    /\ input = 0
    /\ copy = 0
    /\ cards = << >>
    /\ expl = << >>
    /\ m_i = 1

\* no call of the simulation on its own is under way
SimOff ==
    /\ s_pc = "off"
    /\ s_chapter = NoChapter
    /\ s_qi = 1
    /\ s_clicks = << >>
    /\ s_error = "none"

NoError == [text |-> "", url |-> None, attempts |-> None]

\* no call of the download on its own is under way
FetchOff ==
    /\ f_pc = "off"
    /\ f_url = ""
    /\ f_body = << >>
    /\ f_attempt = 1
    /\ f_history = << >>
    /\ f_max_retries = 0
    /\ f_sleeps = << >>
    /\ f_result = << >>
    /\ f_error = NoError

\* no call of the extraction on its own is under way
ExtractOff ==
    /\ e_pc = "off"
    /\ e_page = [source |-> "no_variable"]
    /\ e_qi = 1
    /\ e_built = << >>
    /\ e_fetch = << >>
    /\ e_chapter = NoChapter

\* no call of the URL discovery on its own is under way
DiscoverOff ==
    /\ d_pc = "off"
    /\ d_groups = << >>
    /\ d_i = 1
    /\ d_urls = << >>

\* no call of the explanation extraction on its own is under way
ExplainOff ==
    /\ x_pc = "off"
    /\ x_cards = << >>
    /\ x_i = 1
    /\ x_explanations = << >>
    /\ x_log = << >>
    /\ x_suppressed = {}

\* no `async with Scraper()` block on its own is under way
BrowserOff ==
    /\ b_pc = "off"
    /\ b_type = ""
    /\ b_setup = "none"
    /\ b_acquired = << >>
    /\ b_body = "none"
    /\ b_todo = << >>
    /\ b_closes = << >>
    /\ b_log = << >>
    /\ b_outcome = "none"

\* no call of _click_if_visible on its own is under way
ClickOff ==
    /\ k_pc = "off"
    /\ k_operation = ""
    /\ k_retries = 0
    /\ k_attempt = 0
    /\ k_history = << >>
    /\ k_clicks = 0
    /\ k_error = "none"

\* no call through exception_handler on its own is under way
RaiseOff ==
    /\ r_pc = "off"
    /\ r_chain = ""
    /\ r_stack = << >>
    /\ r_origin = << >>
    /\ r_result = << >>
    /\ r_log = << >>

\* no session of ChapterService calls on its own is under way
InsertOff ==
    /\ i_sess = "off"
    /\ i_db = EmptyRows
    /\ i_txn = EmptyRows
    /\ i_pending = << >>
    /\ i_last = [op |-> "none"]

\* no unit of work of create_session on its own is under way
SessionOff ==
    /\ c_pc = "off"
    /\ c_db = EmptyRows
    /\ c_txn = EmptyRows
    /\ c_before = EmptyRows
    /\ c_body = "none"
    /\ c_error = "none"
    /\ c_calls = << >>
    /\ c_outcome = "none"

\* no Scraper context on its own is under way
ContextOff ==
    /\ n_page = "off"
    /\ n_cm = "off"
    /\ n_life = "off"
    /\ n_trace = << >>

\* no navigation command on its own is under way
NavOff ==
    /\ g_pc = "off"
    /\ g_command = << >>
    /\ g_steps = << >>
    /\ g_result = << >>

Init == ScrapeInit /\ MergeOff /\ SimOff /\ FetchOff /\ ExtractOff /\ DiscoverOff
        /\ ExplainOff
        /\ BrowserOff
        /\ ClickOff
        /\ RaiseOff
        /\ InsertOff
        /\ SessionOff
        /\ ContextOff
        /\ NavOff

(***************************************************************************)
(* Scraper.scrape.                                                         *)
(***************************************************************************)
\* a scrape that opens the session and enters the loop whatever the list
StartScrapeUnchecked(test_urls) ==
    /\ pc = "idle"
    /\ urls' = test_urls
    /\ dbAtRunStart' = db
    /\ pc' = "loop" /\ sess' = "active"
    /\ UNCHANGED unitVars
    /\ UNCHANGED << idx, chapter, updated_chapter, explanations, qi, log, db,
                    pending, txn, inserted, failed, storeFailed, raised >>

\* scrape is called: the landing page loads and the session of the run is
\* opened, unless the list is empty (scrape returns at once)
StartScrape(test_urls) ==
    /\ pc = "idle"
    /\ urls' = test_urls
    /\ dbAtRunStart' = db
    /\ IF test_urls = << >>
       THEN pc' = "returned" /\ sess' = "closed"
       ELSE pc' = "loop" /\ sess' = "active"
    /\ UNCHANGED unitVars
    /\ UNCHANGED << idx, chapter, updated_chapter, explanations, qi, log, db,
                    pending, txn, inserted, failed, storeFailed, raised >>

\* goto_road_code_page raises: scrape raises before the loop
LandingRaises ==
    /\ pc = "idle"
    /\ pc' = "raised"
    /\ raised' = "landing"
    /\ dbAtRunStart' = db
    /\ UNCHANGED unitVars
    /\ UNCHANGED << urls, idx, chapter, updated_chapter, explanations, qi, log,
                    db, sess, pending, txn, inserted, failed, storeFailed >>

\* the run is over and its objects are gone; a later run starts from the
\* committed store alone
NewRun ==
    /\ Ended
    /\ pc' = "idle"
    /\ urls' = << >>
    /\ idx' = 1
    /\ chapter' = NoChapter
    /\ updated_chapter' = NoChapter
    /\ explanations' = << >>
    /\ qi' = 1
    /\ log' = << >>
    /\ dbAtRunStart' = db
    /\ inserted' = {}
    /\ failed' = {}
    /\ storeFailed' = FALSE
    /\ raised' = "none"
    /\ sess' = "closed"
    /\ pending' = << >>
    /\ txn' = EmptyRows
    /\ UNCHANGED unitVars
    /\ UNCHANGED db

\* the except clauses of the per-URL loop: log, then go on to the next URL
ChapterRaised(steps) ==
    /\ log' = Append(steps, "error")
    /\ failed' = failed \cup {idx}
    /\ idx' = idx + 1
    /\ pc' = "loop"

\* `continue` of the per-URL loop
NextUrl ==
    /\ idx' = idx + 1
    /\ pc' = "loop"

\* a navigation, extraction or interaction step of the current URL raises
StepRaises ==
    /\ \/ pc = "loop" /\ idx <= Len(urls)
       \/ pc \in {"navigated", "checked", "answered", "simulated", "opened"}
       \/ pc = "question" /\ Truthy(AnswerToClick(chapter.questions[qi]))
    /\ ChapterRaised(IF pc = "loop" THEN << >> ELSE log)
    /\ UNCHANGED unitVars
    /\ UNCHANGED << urls, chapter, updated_chapter, explanations, qi, db, sess,
                    pending, txn, dbAtRunStart, inserted, storeFailed, raised >>

\* _get_chapter_from_url, first half: goto_road_code_test(url)
Navigate ==
    /\ pc = "loop" /\ idx <= Len(urls)
    /\ pc' = "navigated"
    /\ log' = << "navigate" >>
    /\ UNCHANGED unitVars
    /\ UNCHANGED << urls, idx, chapter, updated_chapter, explanations, qi, db,
                    sess, pending, txn, dbAtRunStart, inserted, failed,
                    storeFailed, raised >>

\* _get_chapter_from_url, second half: get_test_chapter()
Extract ==
    /\ pc = "navigated"
    /\ ~GetTestChapterFails(PageSource(urls[idx]))
    /\ chapter' = SitePage(urls[idx])
    /\ pc' = "extracted"
    /\ log' = Append(log, "extract")
    /\ UNCHANGED unitVars
    /\ UNCHANGED << urls, idx, updated_chapter, explanations, qi, db, sess,
                    pending, txn, dbAtRunStart, inserted, failed, storeFailed,
                    raised >>

\* _get_chapter_from_url: get_test_chapter() raises ExtractorError, caught
\* by the per-URL loop
ExtractRaises ==
    /\ pc = "navigated"
    /\ GetTestChapterFails(PageSource(urls[idx]))
    /\ ChapterRaised(log)
    /\ UNCHANGED unitVars
    /\ UNCHANGED << urls, chapter, updated_chapter, explanations, qi, db, sess,
                    pending, txn, dbAtRunStart, inserted, storeFailed, raised >>

\* a loop that lets a chapter without questions on to the simulation
SkipEmptyUnchecked ==
    /\ pc = "extracted"
    /\ chapter.questions = << >>
    /\ log' = Append(log, "exists:false")
    /\ pc' = "checked"
    /\ UNCHANGED unitVars
    /\ UNCHANGED << urls, idx, chapter, updated_chapter, explanations, qi, db,
                    sess, pending, txn, dbAtRunStart, inserted, failed,
                    storeFailed, raised >>

\* `if not chapter or not chapter.questions: continue`
SkipEmpty ==
    /\ pc = "extracted"
    /\ chapter.questions = << >>
    /\ log' = Append(log, "skip")
    /\ NextUrl
    /\ UNCHANGED unitVars
    /\ UNCHANGED << urls, chapter, updated_chapter, explanations, qi, db, sess,
                    pending, txn, dbAtRunStart, inserted, failed, storeFailed,
                    raised >>

\* the existence check without its `continue`
SkipIfExistsNever(found) == FALSE

\* `if chapter_service.chapter_exists(chapter.id): continue`
SkipIfExists(found) == found

\* the existence check before the simulation; the query first flushes the
\* pending chapters (autoflush)
ExistsCheck ==
    /\ pc = "extracted"
    /\ chapter.questions # << >>
    /\ sess = "active"
    /\ ~FlushFails(pending, txn, db)
    /\ txn' = RowsUnion(txn, PendingRows(pending))
    /\ pending' = << >>
    /\ LET found == ChapterExists(chapter.id, txn', db)
       IN  /\ log' = Append(log, IF found THEN "exists:true" ELSE "exists:false")
           /\ IF SkipIfExists(found)
              THEN NextUrl
              ELSE pc' = "checked" /\ idx' = idx
    /\ UNCHANGED unitVars
    /\ UNCHANGED << urls, chapter, updated_chapter, explanations, qi, db, sess,
                    dbAtRunStart, inserted, failed, storeFailed, raised >>

\* a query of chapter_exists (in the check or inside insert_chapter) raises.
\* When the session is inactive already or the autoflush fails, the
\* transaction is rolled back and the session stays inactive until a
\* rollback() that scrape never calls; when only the statement fails, the
\* pending chapters were flushed and the session stays usable.
StoreRaises ==
    /\ \/ pc = "extracted" /\ chapter.questions # << >>
       \/ pc = "merged"
    /\ sess \in {"active", "inactive"}
    /\ IF sess = "inactive" \/ FlushFails(pending, txn, db)
       THEN /\ sess' = "inactive"
            /\ txn' = EmptyRows
       ELSE /\ sess' = sess
            /\ txn' = RowsUnion(txn, PendingRows(pending))
    /\ pending' = << >>
    /\ storeFailed' = TRUE
    /\ ChapterRaised(log)
    /\ UNCHANGED unitVars
    /\ UNCHANGED << urls, chapter, updated_chapter, explanations, qi, db,
                    dbAtRunStart, inserted, raised >>

\* a simulation that starts before the existence check
SimStartUnchecked ==
    /\ pc = "extracted"
    /\ chapter.questions # << >>
    /\ qi' = 1
    /\ pc' = "question"
    /\ log' = Append(log, "start")
    /\ UNCHANGED unitVars
    /\ UNCHANGED << urls, idx, chapter, updated_chapter, explanations, db, sess,
                    pending, txn, dbAtRunStart, inserted, failed, storeFailed,
                    raised >>

\* _simulate_user_test_flow: start_road_code_test()
SimStart ==
    /\ pc = "checked"
    /\ qi' = 1
    /\ pc' = "question"
    /\ log' = Append(log, "start")
    /\ UNCHANGED unitVars
    /\ UNCHANGED << urls, idx, chapter, updated_chapter, explanations, db, sess,
                    pending, txn, dbAtRunStart, inserted, failed, storeFailed,
                    raised >>

\* _simulate_user_test_flow: click the chosen answer of question qi, or
\* raise ScraperError when there is none to click
SimAnswer ==
    /\ pc = "question"
    /\ IF Truthy(AnswerToClick(chapter.questions[qi]))
       THEN /\ pc' = "answered"
            /\ log' = Append(log, "answer")
            /\ UNCHANGED << idx, failed >>
       ELSE ChapterRaised(log)
    /\ UNCHANGED unitVars
    /\ UNCHANGED << urls, chapter, updated_chapter, explanations, qi, db, sess,
                    pending, txn, dbAtRunStart, inserted, storeFailed, raised >>

\* _simulate_user_test_flow: next_question() or, on the last question,
\* finish_road_code_test()
SimAdvance ==
    /\ pc = "answered"
    /\ IF qi < Len(chapter.questions)
       THEN /\ qi' = qi + 1
            /\ pc' = "question"
            /\ log' = Append(log, "next")
       ELSE /\ qi' = qi
            /\ pc' = "simulated"
            /\ log' = Append(log, "finish")
    /\ UNCHANGED unitVars
    /\ UNCHANGED << urls, idx, chapter, updated_chapter, explanations, db, sess,
                    pending, txn, dbAtRunStart, inserted, failed, storeFailed,
                    raised >>

\* page_handler.open_answer_accordion()
OpenAccordion ==
    /\ pc = "simulated"
    /\ pc' = "opened"
    /\ log' = Append(log, "accordion")
    /\ UNCHANGED unitVars
    /\ UNCHANGED << urls, idx, chapter, updated_chapter, explanations, qi, db,
                    sess, pending, txn, dbAtRunStart, inserted, failed,
                    storeFailed, raised >>

\* _append_explanations: get_correct_answers_explanations()
ExtractExplanations ==
    /\ pc = "opened"
    /\ explanations' = SiteCards(chapter)
    /\ pc' = "explained"
    /\ log' = Append(log, "explanations")
    /\ UNCHANGED unitVars
    /\ UNCHANGED << urls, idx, chapter, updated_chapter, qi, db, sess, pending,
                    txn, dbAtRunStart, inserted, failed, storeFailed, raised >>

\* _append_explanations: the merge into a deep copy
Merge ==
    /\ pc = "explained"
    /\ updated_chapter' = AppendExplanationsValue(chapter, explanations)
    /\ pc' = "merged"
    /\ log' = Append(log, "merge")
    /\ UNCHANGED unitVars
    /\ UNCHANGED << urls, idx, chapter, explanations, qi, db, sess, pending, txn,
                    dbAtRunStart, inserted, failed, storeFailed, raised >>

\* an insert that commits its chapter at once (a unit of work per chapter)
InsertChapterCommitting ==
    /\ pc = "merged"
    /\ sess = "active"
    /\ ~FlushFails(pending, txn, db)
    /\ IF ChapterExists(updated_chapter.id, txn, db)
       THEN /\ db' = db
            /\ inserted' = inserted
       ELSE /\ db' = RowsUnion(db, RowsUnion(txn, CreateChapter(updated_chapter)))
            /\ inserted' = inserted \cup {updated_chapter.id}
    /\ txn' = EmptyRows
    /\ pending' = << >>
    /\ log' = Append(log, "insert")
    /\ NextUrl
    /\ UNCHANGED unitVars
    /\ UNCHANGED << urls, chapter, updated_chapter, explanations, qi, sess,
                    dbAtRunStart, failed, storeFailed, raised >>

\* ChapterService.insert_chapter(updated_chapter): the chapter is added to
\* the session unless it exists
InsertChapter ==
    /\ pc = "merged"
    /\ sess = "active"
    /\ ~FlushFails(pending, txn, db)
    /\ txn' = RowsUnion(txn, PendingRows(pending))
    /\ IF ChapterExists(updated_chapter.id, txn', db)
       THEN /\ pending' = << >>
            /\ inserted' = inserted
       ELSE /\ pending' = << updated_chapter >>
            /\ inserted' = inserted \cup {updated_chapter.id}
    /\ log' = Append(log, "insert")
    /\ NextUrl
    /\ UNCHANGED unitVars
    /\ UNCHANGED << urls, chapter, updated_chapter, explanations, qi, db, sess,
                    dbAtRunStart, failed, storeFailed, raised >>

\* a commit that leaves out the chapters still pending in the session
CommitWithoutPending ==
    /\ pc = "loop" /\ idx > Len(urls)
    /\ sess = "active"
    /\ ~FlushFails(pending, txn, db)
    /\ db' = RowsUnion(db, txn)
    /\ pc' = "returned"
    /\ sess' = "closed"
    /\ pending' = << >>
    /\ txn' = EmptyRows
    /\ UNCHANGED unitVars
    /\ UNCHANGED << urls, idx, chapter, updated_chapter, explanations, qi, log,
                    dbAtRunStart, inserted, failed, storeFailed, raised >>

\* DBHelper.create_session, after the loop: session.commit() succeeds
Commit ==
    /\ pc = "loop" /\ idx > Len(urls)
    /\ sess = "active"
    /\ ~FlushFails(pending, txn, db)
    /\ db' = RowsUnion(db, RowsUnion(txn, PendingRows(pending)))
    /\ pc' = "returned"
    /\ sess' = "closed"
    /\ pending' = << >>
    /\ txn' = EmptyRows
    /\ UNCHANGED unitVars
    /\ UNCHANGED << urls, idx, chapter, updated_chapter, explanations, qi, log,
                    dbAtRunStart, inserted, failed, storeFailed, raised >>

\* DBHelper.create_session, after the loop: session.commit() raises (the
\* session is inactive, the flush fails, or the commit itself fails); the
\* session is rolled back and closed and scrape raises DBHelperError
CommitRaises ==
    /\ pc = "loop" /\ idx > Len(urls)
    /\ raised' = IF sess = "inactive" THEN "session_inactive"
                 ELSE IF FlushFails(pending, txn, db) THEN "flush"
                 ELSE "commit"
    /\ pc' = "raised"
    /\ sess' = "closed"
    /\ pending' = << >>
    /\ txn' = EmptyRows
    /\ UNCHANGED unitVars
    /\ UNCHANGED << urls, idx, chapter, updated_chapter, explanations, qi, log,
                    db, dbAtRunStart, inserted, failed, storeFailed >>

\* the run is interrupted inside the loop (the process is killed, or a
\* BaseException such as KeyboardInterrupt or CancelledError passes the
\* except clauses): nothing is committed, the session is closed
Interrupt ==
    /\ InRun
    /\ pc' = "interrupted"
    /\ sess' = "closed"
    /\ pending' = << >>
    /\ txn' = EmptyRows
    /\ UNCHANGED unitVars
    /\ UNCHANGED << urls, idx, chapter, updated_chapter, explanations, qi, log,
                    db, dbAtRunStart, inserted, failed, storeFailed, raised >>

Next ==
    \/ \E test_urls \in UrlLists : StartScrape(test_urls)
    \/ LandingRaises
    \/ NewRun
    \/ StepRaises
    \/ Navigate
    \/ Extract
    \/ ExtractRaises
    \/ SkipEmpty
    \/ ExistsCheck
    \/ StoreRaises
    \/ SimStart
    \/ SimAnswer
    \/ SimAdvance
    \/ OpenAccordion
    \/ ExtractExplanations
    \/ Merge
    \/ InsertChapter
    \/ Commit
    \/ CommitRaises
    \/ Interrupt

Spec == Init /\ [][Next]_vars

(***************************************************************************)
(* Properties of the run of scrape (checked under Spec).                   *)
(***************************************************************************)
\* the steps that simulate the test, read the results or insert
WorkSteps == {"start", "answer", "next", "finish", "accordion", "explanations",
              "merge", "insert"}

HasWork(steps) == \E k \in 1..Len(steps) : steps[k] \in WorkSteps

\* the chapter ids the URLs of the run serve
RunChapterIds == { SitePage(urls[i]).id : i \in 1..Len(urls) }

\* the title the site serves for a chapter id
ExtractedTitle(chapter_id) ==
    SitePage(CHOOSE u \in Urls : SitePage(u).id = chapter_id).title

\* C1: idempotent re-run.  A chapter that was committed when the run began
\* gets no start/answer/next/finish/accordion/explanations/merge/insert
\* step and is not inserted, and a run whose URLs all serve chapters that
\* were committed when it began leaves the store content as it was.
C1_IdempotentRerun ==
    /\ HasWork(log) => chapter.id \notin ChapterIds(dbAtRunStart)
    /\ inserted \cap ChapterIds(dbAtRunStart) = {}
    /\ (Ended /\ RunChapterIds \subseteq ChapterIds(dbAtRunStart))
          => db = dbAtRunStart

\* C1 witness: a run over chapters an earlier run committed has returned,
\* its last URL skipped at the existence check
C1_Witness ==
    /\ pc = "returned"
    /\ urls # << >>
    /\ RunChapterIds \subseteq ChapterIds(dbAtRunStart)
    /\ log = << "navigate", "extract", "exists:true" >>
    /\ db = dbAtRunStart
    /\ failed = {}

C3_RollbackOneChapterOnly ==
    (pc \in {"returned", "raised"} /\ storeFailed /\ raised \notin {"commit", "landing"})
        => inserted \subseteq ChapterIds(db)

\* C4 as claimed: batch resilience.  After a failure raised while
\* processing a URL the loop still goes through every URL of the list, and
\* scrape does not raise because of that failure.
C4_BatchResilience ==
    /\ (failed # {} /\ pc \in {"returned", "raised"}) => idx = Len(urls) + 1
    /\ failed # {} => raised # "session_inactive"

\* C5: the existence check comes after the extraction and before the first
\* simulation step, and after a check that found the chapter no start,
\* answer, next, finish, accordion, explanations, merge or insert step is
\* taken for that URL.
C5_ExistsBeforeSimulation ==
    /\ \A k \in 1..Len(log) :
          log[k] \in WorkSteps =>
             \E j \in 1..(k - 1) :
                /\ log[j] = "exists:false"
                /\ \E h \in 1..(j - 1) : log[h] = "extract"
    /\ (\E j \in 1..Len(log) : log[j] = "exists:true") => ~HasWork(log)

\* C5 witness: the check found the chapter and the loop went on
C5_Witness ==
    /\ pc = "loop"
    /\ log = << "navigate", "extract", "exists:true" >>
    /\ chapter.id \in ChapterIds(db)

\* a chapter is in the rows with all its questions and answers
FullyPresent(ch, d) ==
    /\ ch.id \in ChapterIds(d)
    /\ \A q \in Range(ch.questions) :
          /\ \E r \in d.questions : r.id = q.id /\ r.chapter_id = ch.id
          /\ \A a \in Range(q.answers) :
                \E r \in d.answers : r.id = a.id /\ r.question_id = q.id

\* no row of the chapter is in the rows
FullyAbsent(ch, d) ==
    /\ ch.id \notin ChapterIds(d)
    /\ \A r \in d.questions : r.chapter_id # ch.id
    /\ \A q \in Range(ch.questions) : \A a \in Range(q.answers) :
          \A r \in d.answers : r.id # a.id

\* C6: no partial chapters.  In every committed store state each chapter
\* is there with all its questions and answers or not at all, and no
\* question or answer row is there without its chapter or question.
C6_NoPartialChapters ==
    /\ \A u \in Urls : FullyPresent(SitePage(u), db) \/ FullyAbsent(SitePage(u), db)
    /\ \A r \in db.questions : r.chapter_id \in ChapterIds(db)
    /\ \A r \in db.answers : \E q \in db.questions : q.id = r.question_id

\* C6 witness: a run in which one URL failed has committed another chapter
C6_Witness ==
    /\ pc = "returned"
    /\ failed # {}
    /\ inserted # {}
    /\ \E u \in Urls : SitePage(u).id \in inserted /\ FullyPresent(SitePage(u), db)

\* C7: when scrape returns normally, every chapter inserted in the run (all
\* its steps succeeded and it was not stored before) is committed: a later
\* get_chapter by its id finds it, with the extracted title.
C7_CommittedAfterReturn ==
    pc = "returned" =>
        \A c \in inserted :
            GetChapter(c, db) = {[id |-> c, title |-> ExtractedTitle(c)]}

\* C7 witness: scrape has returned after inserting every chapter of a list
\* of two
C7_Witness ==
    /\ pc = "returned"
    /\ Cardinality(inserted) = 2
    /\ failed = {}

\* the chapter has a question with no answers
HasZeroAnswerQuestion(ch) ==
    \E i \in 1..Len(ch.questions) : ch.questions[i].answers = << >>

\* the steps that follow a simulation that went through
AfterSimulationSteps == {"finish", "accordion", "explanations", "merge", "insert"}

\* C13: a chapter with a question that has zero answers has its simulation
\* aborted at that question (no answer is clicked for it): no finish click,
\* no results opening, no merge and no insert happen for the chapter, its
\* URL is counted as failed, and the loop goes on to the next URL.
C13_ZeroAnswersAbortsChapter ==
    /\ pc = "answered" => chapter.questions[qi].answers # << >>
    /\ (pc \in {"extracted", "checked", "question", "answered", "simulated",
                "opened", "explained", "merged"}
        /\ HasZeroAnswerQuestion(chapter))
          => /\ \A k \in 1..Len(log) : log[k] \notin AfterSimulationSteps
             /\ pc \notin {"simulated", "opened", "explained", "merged"}
    /\ (pc = "loop" /\ idx > 1 /\ \E k \in 1..Len(log) : log[k] = "exists:false")
          => (HasZeroAnswerQuestion(SitePage(urls[idx - 1]))
                 => /\ idx - 1 \in failed
                    /\ log[Len(log)] = "error"
                    /\ \A k \in 1..Len(log) : log[k] \notin AfterSimulationSteps
                    /\ SitePage(urls[idx - 1]).id \notin inserted
                    /\ (idx <= Len(urls) => ENABLED Navigate))

\* C13 witness: the simulation of the chapter of URL 5 was aborted at its
\* second question, which has no answers, and the loop is at the next URL
C13_Witness ==
    /\ pc = "loop"
    /\ Len(urls) = 2
    /\ idx = 2
    /\ HasZeroAnswerQuestion(SitePage(urls[1]))
    /\ log = << "navigate", "extract", "exists:false", "start", "answer", "next",
                "error" >>
    /\ failed = {1}
    /\ inserted = {}

\* the page of the URL lacks the embedded JSON variable, or its JSON does
\* not parse
LacksChapterJson(url) == PageSource(url) \in {"no_variable", "bad_json"}

\* C19: when the chapter page lacks the embedded JSON variable or its JSON
\* does not parse, the extraction raises for that URL: no existence check,
\* simulation or insert step is taken for it, the store is as it was, the
\* URL is counted as failed and the loop goes on to the next URL.
C19_ExtractionFailureSkipsUrl ==
    /\ (pc = "navigated" /\ LacksChapterJson(urls[idx]))
          => ENABLED ExtractRaises /\ ~ENABLED Extract
    /\ (InRun /\ pc # "loop" /\ LacksChapterJson(urls[idx]))
          => pc = "navigated" /\ log = << "navigate" >> /\ db = dbAtRunStart
    /\ (pc = "loop" /\ idx > 1 /\ LacksChapterJson(urls[idx - 1]))
          => /\ idx - 1 \in failed
             /\ log \in { << "error" >>, << "navigate", "error" >> }
             /\ db = dbAtRunStart
             /\ (idx <= Len(urls) => ENABLED Navigate)

\* C19 witness: the extraction has raised for a page without the variable
\* and for a page whose JSON does not parse, and the loop is past both
C19_Witness ==
    /\ pc = "loop"
    /\ idx = 3
    /\ Len(urls) = 2
    /\ PageSource(urls[1]) = "no_variable"
    /\ PageSource(urls[2]) = "bad_json"
    /\ log = << "navigate", "error" >>
    /\ failed = {1, 2}

(***************************************************************************)
(* Scraper._append_explanations on objects.  The chapter, its questions    *)
(* and its answers are objects of a heap, referred to by their index, so   *)
(* that a write through one reference shows through every other reference  *)
(* to the same object.                                                     *)
(***************************************************************************)
AnswerObject(a) ==
    [kind |-> "answer", id |-> a.id, answer |-> a.answer,
     is_correct_answer |-> a.is_correct_answer, explanation |-> a.explanation]

RECURSIVE AllocQuestions(_, _)
\* the objects of the questions qs and of their answers, appended to h
AllocQuestions(h, qs) ==
    IF qs = << >> THEN [heap |-> h, refs |-> << >>]
    ELSE LET q    == Head(qs)
             n    == Len(q.answers)
             ha   == h \o [k \in 1..n |-> AnswerObject(q.answers[k])]
             hq   == Append(ha, [kind |-> "question", id |-> q.id,
                                 refs |-> [k \in 1..n |-> Len(h) + k]])
             rest == AllocQuestions(hq, Tail(qs))
         IN  [heap |-> rest.heap, refs |-> << Len(hq) >> \o rest.refs]

\* the heap holding the chapter value ch, and the ref of its chapter object
AllocChapter(ch) ==
    LET qs == AllocQuestions(<< >>, ch.questions)
    IN  [heap |-> Append(qs.heap, [kind |-> "chapter", id |-> ch.id,
                                   title |-> ch.title, refs |-> qs.refs]),
         ref  |-> Len(qs.heap) + 1]

\* the value of the answer, question and chapter object at a ref
AnswerValue(h, r) ==
    [id |-> h[r].id, answer |-> h[r].answer,
     is_correct_answer |-> h[r].is_correct_answer, explanation |-> h[r].explanation]

QuestionValue(h, r) ==
    [id |-> h[r].id,
     answers |-> [k \in 1..Len(h[r].refs) |-> AnswerValue(h, h[r].refs[k])]]

ChapterValue(h, r) ==
    [id |-> h[r].id, title |-> h[r].title,
     questions |-> [i \in 1..Len(h[r].refs) |-> QuestionValue(h, h[r].refs[i])]]

\* the refs of a chapter object, its question objects and their answer objects
Reach(h, r) ==
    {r} \cup Range(h[r].refs)
        \cup UNION { Range(h[q].refs) : q \in Range(h[r].refs) }

RECURSIVE DeepCopy(_, _)
RECURSIVE DeepCopyAll(_, _)
\* copy.deepcopy of the object at r: new objects for it and all it refers to
DeepCopy(h, r) ==
    IF h[r].kind = "answer"
    THEN [heap |-> Append(h, h[r]), ref |-> Len(h) + 1]
    ELSE LET kids == DeepCopyAll(h, h[r].refs)
         IN  [heap |-> Append(kids.heap, [h[r] EXCEPT !.refs = kids.refs]),
              ref  |-> Len(kids.heap) + 1]

DeepCopyAll(h, refs) ==
    IF refs = << >> THEN [heap |-> h, refs |-> << >>]
    ELSE LET first == DeepCopy(h, Head(refs))
             rest  == DeepCopyAll(first.heap, Tail(refs))
         IN  [heap |-> rest.heap, refs |-> << first.ref >> \o rest.refs]

\* a shallow copy: a new chapter object referring to the same questions
ShallowCopy(h, r) == [heap |-> Append(h, h[r]), ref |-> Len(h) + 1]

\* chapter.model_copy(deep=True)
ModelCopy(h, r) == DeepCopy(h, r)

\* a guard that lets every index through
HasQuestionAlways(i, num_questions) == TRUE

\* `if i < num_questions` (i from 0 there, from 1 here)
HasQuestion(i, num_questions) == i <= num_questions

\* a search that falls back to the first answer when none is flagged correct
CorrectOrFirstAnswerRef(h, r) ==
    LET answers == [k \in 1..Len(h[r].refs) |-> AnswerValue(h, h[r].refs[k])]
        k == CorrectAnswerIndex(answers)
    IN  IF k # 0 THEN h[r].refs[k]
        ELSE IF h[r].refs = << >> THEN 0 ELSE h[r].refs[1]

\* a search that takes the first answer whatever its flag
FirstAnswerRef(h, r) == IF h[r].refs = << >> THEN 0 ELSE h[r].refs[1]

\* the ref of the answer that next(...) finds in the question object at r,
\* 0 for None
CorrectAnswerRef(h, r) ==
    LET answers == [k \in 1..Len(h[r].refs) |-> AnswerValue(h, h[r].refs[k])]
        k == CorrectAnswerIndex(answers)
    IN  IF k = 0 THEN 0 ELSE h[r].refs[k]

\* the chapters a call of the merge is given: up to MaxQuestions questions
\* of up to MaxAnswers answers each, as extracted (no explanation set)
AnswerFlags == UNION { [1..n -> BOOLEAN] : n \in 0..MaxAnswers }

MergeQuestionInput(i, flags) ==
    QuestionSchema(10 * i,
        [k \in 1..Len(flags) |->
            AnswerSchema(100 * i + k - 1, IF k = 1 THEN "Yes" ELSE "No", flags[k])])

MergeInputs ==
    { ChapterSchema(1, "T", [i \in DOMAIN f |-> MergeQuestionInput(i, f[i])]) :
        f \in UNION { [1..n -> AnswerFlags] : n \in 0..MaxQuestions } }

\* a call of _append_explanations(chapter) begins, on some chapter and
\* some results page
MergeInit ==
    /\ ScrapeInit
    /\ NavOff
    /\ ContextOff
    /\ SessionOff
    /\ InsertOff
    /\ RaiseOff
    /\ ClickOff
    /\ BrowserOff
    /\ ExplainOff
    /\ DiscoverOff
    /\ SimOff
    /\ FetchOff
    /\ ExtractOff
    /\ m_pc = "start"
    /\ \E ch \in MergeInputs :
          /\ heap = AllocChapter(ch).heap
          /\ input = AllocChapter(ch).ref
    /\ heap0 = heap
    /\ copy = 0
    /\ cards \in { [j \in 1..m |-> CardText(j)] : m \in 0..MaxCards }
    /\ expl = << >>
    /\ m_i = 1

\* get_correct_answers_explanations() finds no card and raises
M_ExplanationsRaise ==
    /\ m_pc = "start"
    /\ cards = << >>
    /\ m_pc' = "raised"
    /\ UNCHANGED << heap, heap0, input, copy, cards, expl, m_i >>
    /\ UNCHANGED besideMerge

\* get_correct_answers_explanations(): one explanation per card, in order
M_GetExplanations ==
    /\ m_pc = "start"
    /\ cards # << >>
    /\ expl' = cards
    /\ m_pc' = "copy"
    /\ UNCHANGED << heap, heap0, input, copy, cards, m_i >>
    /\ UNCHANGED besideMerge

\* updated_chapter = chapter.model_copy(deep=True)
M_ModelCopy ==
    /\ m_pc = "copy"
    /\ heap' = ModelCopy(heap, input).heap
    /\ copy' = ModelCopy(heap, input).ref
    /\ m_i' = 1
    /\ m_pc' = "loop"
    /\ UNCHANGED << heap0, input, cards, expl >>
    /\ UNCHANGED besideMerge

\* one turn of `for i, explanation in enumerate(explanations)`; reading
\* questions[i] past the end of the list raises IndexError
M_LoopStep ==
    /\ m_pc = "loop"
    /\ m_i <= Len(expl)
    /\ IF HasQuestion(m_i, Len(heap[copy].refs))
       THEN IF m_i > Len(heap[copy].refs)
            THEN /\ m_pc' = "raised"
                 /\ UNCHANGED << heap, m_i >>
            ELSE LET target == CorrectAnswerRef(heap, heap[copy].refs[m_i])
                 IN  /\ heap' = IF target = 0 THEN heap
                                ELSE [heap EXCEPT ![target].explanation = Some(expl[m_i])]
                     /\ m_i' = m_i + 1
                     /\ m_pc' = "loop"
       ELSE /\ m_i' = m_i + 1
            /\ UNCHANGED << heap, m_pc >>
    /\ UNCHANGED << heap0, input, copy, cards, expl >>
    /\ UNCHANGED besideMerge

\* `return updated_chapter`
M_Return ==
    /\ m_pc = "loop"
    /\ m_i > Len(expl)
    /\ m_pc' = "returned"
    /\ UNCHANGED << heap, heap0, input, copy, cards, expl, m_i >>
    /\ UNCHANGED besideMerge

MergeNext ==
    \/ M_ExplanationsRaise
    \/ M_GetExplanations
    \/ M_ModelCopy
    \/ M_LoopStep
    \/ M_Return

\* _append_explanations called on its own, on any chapter and results page
SpecMerge == MergeInit /\ [][MergeNext]_vars

(***************************************************************************)
(* Properties of the merge (checked under SpecMerge).                      *)
(***************************************************************************)
InputValue == ChapterValue(heap0, input)

CopyValue == ChapterValue(heap, copy)

NumQuestions == Len(InputValue.questions)

\* question i of the result is question i of the input with explanation e
\* on its first correct answer and every other answer as it was
MergedAt(i, e) ==
    \A k \in 1..Len(InputValue.questions[i].answers) :
        CopyValue.questions[i].answers[k] =
            IF k = CorrectAnswerIndex(InputValue.questions[i].answers)
            THEN [InputValue.questions[i].answers[k] EXCEPT !.explanation = Some(e)]
            ELSE InputValue.questions[i].answers[k]

\* C8: merge alignment.  With as many explanations as questions and a
\* correct answer in every question, the correct answer of question i
\* carries explanations[i] for every i, and every other answer has no
\* explanation.
C8_MergeAlignment ==
    (/\ m_pc = "returned"
     /\ Len(expl) = NumQuestions
     /\ \A i \in 1..NumQuestions :
           CorrectAnswerIndex(InputValue.questions[i].answers) # 0)
        => \A i \in 1..NumQuestions :
              /\ MergedAt(i, expl[i])
              /\ \A k \in 1..Len(CopyValue.questions[i].answers) :
                    LET a == CopyValue.questions[i].answers[k]
                    IN  IF k = CorrectAnswerIndex(InputValue.questions[i].answers)
                        THEN a.is_correct_answer /\ a.explanation = Some(expl[i])
                        ELSE a.explanation = None

\* C8 witness: the chapter with answers 100 (correct) and 101 merged with
\* one explanation: answer 100 has "because yes", answer 101 has none
C8_Witness ==
    /\ m_pc = "returned"
    /\ expl = << "because yes" >>
    /\ NumQuestions = 1
    /\ Len(CopyValue.questions[1].answers) = 2
    /\ CopyValue.questions[1].answers[1].id = 100
    /\ CopyValue.questions[1].answers[1].explanation = Some("because yes")
    /\ CopyValue.questions[1].answers[2].id = 101
    /\ CopyValue.questions[1].answers[2].explanation = None

\* C9: with a different number of explanations than questions the merge
\* raises nothing and merges the overlapping prefix by index: questions
\* past the last explanation are as they were, explanations past the last
\* question are ignored.
C9_PrefixOnMismatch ==
    /\ m_pc = "raised" => cards = << >>
    /\ (m_pc = "loop" /\ m_i > Len(expl)) => ENABLED M_Return
    /\ (m_pc = "returned" /\ Len(expl) # NumQuestions)
          => /\ Len(CopyValue.questions) = NumQuestions
             /\ \A i \in 1..NumQuestions :
                   IF i <= Len(expl)
                   THEN /\ MergedAt(i, expl[i])
                        /\ CopyValue.questions[i].id = InputValue.questions[i].id
                   ELSE CopyValue.questions[i] = InputValue.questions[i]

\* C9 witness (fewer): the merge has returned with fewer explanations than
\* questions, the last question unmerged though it has a correct answer
C9_Witness ==
    /\ m_pc = "returned"
    /\ Len(expl) < NumQuestions
    /\ CorrectAnswerIndex(InputValue.questions[NumQuestions].answers) # 0
    /\ CopyValue.questions[NumQuestions] = InputValue.questions[NumQuestions]
    /\ CopyValue.questions[1] # InputValue.questions[1]

\* the merge has returned with more explanations than questions
C9_WitnessSurplus ==
    /\ m_pc = "returned"
    /\ Len(expl) > NumQuestions
    /\ NumQuestions >= 1
    /\ CopyValue.questions[NumQuestions] # InputValue.questions[NumQuestions]

\* C10: the merge never mutates its input.  Whether the call returns or
\* raises, every object of the input chapter is as it was before the call,
\* and the result shares no object with the input.
C10_InputNotMutated ==
    /\ \A r \in Reach(heap0, input) : heap[r] = heap0[r]
    /\ ChapterValue(heap, input) = InputValue
    /\ copy # 0 => Reach(heap, copy) \cap Reach(heap0, input) = {}

\* C10 witness: the merge has returned a chapter with an explanation set
C10_Witness ==
    /\ m_pc = "returned"
    /\ CopyValue # InputValue
    /\ ChapterValue(heap, input) = InputValue

\* question i of the input has an answer flagged correct
HasCorrectAnswer(i) ==
    \E k \in 1..Len(InputValue.questions[i].answers) :
        InputValue.questions[i].answers[k].is_correct_answer

\* C11: after the merge an explanation is set only on answers flagged
\* correct; a paired question with no correct answer is left as it was,
\* nothing is raised for it, and the questions after it are still merged.
C11_OnlyCorrectAnswersExplained ==
    /\ copy # 0 =>
          \A i \in 1..Len(CopyValue.questions) :
             \A k \in 1..Len(CopyValue.questions[i].answers) :
                LET a == CopyValue.questions[i].answers[k]
                IN  a.explanation # None => a.is_correct_answer
    /\ m_pc = "raised" => copy = 0
    /\ m_pc = "returned" =>
          \A i \in 1..NumQuestions :
             IF HasCorrectAnswer(i)
             THEN i <= Len(expl) =>
                     \E k \in 1..Len(CopyValue.questions[i].answers) :
                        CopyValue.questions[i].answers[k].explanation = Some(expl[i])
             ELSE CopyValue.questions[i] = InputValue.questions[i]

\* C11 witness: the merge has returned; the first question, paired with an
\* explanation, has answers but no correct one and is as it was, and the
\* second question carries its explanation
C11_Witness ==
    /\ m_pc = "returned"
    /\ NumQuestions = 2
    /\ Len(expl) >= 2
    /\ InputValue.questions[1].answers # << >>
    /\ ~HasCorrectAnswer(1)
    /\ CopyValue.questions[1] = InputValue.questions[1]
    /\ HasCorrectAnswer(2)
    /\ \E k \in 1..Len(CopyValue.questions[2].answers) :
          CopyValue.questions[2].answers[k].explanation = Some(expl[2])

(***************************************************************************)
(* Scraper._simulate_user_test_flow called on its own, on any chapter.     *)
(* An answer text is a string; the extractor gives "" to an answer whose   *)
(* record has no text.                                                     *)
(***************************************************************************)
\* which answers of a question have the empty text
TextPatterns == {"texts", "incorrect_empty", "all_empty"}

SimAnswerText(k, is_correct, pattern) ==
    IF pattern = "all_empty" \/ (pattern = "incorrect_empty" /\ ~is_correct)
    THEN ""
    ELSE "answer " \o ToString(k)

SimQuestionInput(i, flags, pattern) ==
    QuestionSchema(10 * i,
        [k \in 1..Len(flags) |->
            AnswerSchema(100 * i + k - 1, SimAnswerText(k, flags[k], pattern), flags[k])])

\* the chapters a call of the simulation is given: up to max_questions
\* questions of up to MaxAnswers answers each
SimInputs(max_questions) ==
    { ChapterSchema(1, "T", [i \in DOMAIN f |-> SimQuestionInput(i, f[i][1], f[i][2])]) :
        f \in UNION { [1..n -> AnswerFlags \X TextPatterns] : n \in 0..max_questions } }

Click(op, text) == [op |-> op, text |-> text]

SimInit ==
    /\ ScrapeInit
    /\ NavOff
    /\ ContextOff
    /\ SessionOff
    /\ InsertOff
    /\ RaiseOff
    /\ ClickOff
    /\ BrowserOff
    /\ ExplainOff
    /\ DiscoverOff
    /\ MergeOff
    /\ FetchOff
    /\ ExtractOff
    /\ s_pc = "start"
    /\ s_chapter \in SimInputs(MaxQuestions)
    /\ s_qi = 1
    /\ s_clicks = << >>
    /\ s_error = "none"

\* page_handler.start_road_code_test(); with no question the loop body
\* never runs and the call returns
S_Start ==
    /\ s_pc = "start"
    /\ s_clicks' = Append(s_clicks, Click("start", ""))
    /\ s_qi' = 1
    /\ s_pc' = IF s_chapter.questions = << >> THEN "returned" ELSE "question"
    /\ UNCHANGED << s_chapter, s_error >>
    /\ UNCHANGED besideSim

\* the answer of question s_qi is chosen and clicked, or ScraperError is
\* raised when `if answer_to_click` fails
S_Answer ==
    /\ s_pc = "question"
    /\ LET answer_to_click == AnswerToClick(s_chapter.questions[s_qi])
       IN  IF Truthy(answer_to_click)
           THEN /\ s_clicks' = Append(s_clicks, Click("answer", answer_to_click[1]))
                /\ s_pc' = "answered"
                /\ s_error' = s_error
           ELSE /\ s_pc' = "raised"
                /\ s_error' = "no_answer"
                /\ s_clicks' = s_clicks
    /\ UNCHANGED << s_chapter, s_qi >>
    /\ UNCHANGED besideSim

\* next_question() when i < num_questions - 1, else finish_road_code_test(),
\* after which the loop is over and the call returns
S_Advance ==
    /\ s_pc = "answered"
    /\ IF s_qi < Len(s_chapter.questions)
       THEN /\ s_clicks' = Append(s_clicks, Click("next", ""))
            /\ s_qi' = s_qi + 1
            /\ s_pc' = "question"
       ELSE /\ s_clicks' = Append(s_clicks, Click("finish", ""))
            /\ s_qi' = s_qi
            /\ s_pc' = "returned"
    /\ UNCHANGED << s_chapter, s_error >>
    /\ UNCHANGED besideSim

\* a call of the page handler (start, click_answer, next, finish) raises
S_PageRaises ==
    /\ \/ s_pc \in {"start", "answered"}
       \/ s_pc = "question" /\ Truthy(AnswerToClick(s_chapter.questions[s_qi]))
    /\ s_pc' = "raised"
    /\ s_error' = "page"
    /\ UNCHANGED << s_chapter, s_qi, s_clicks >>
    /\ UNCHANGED besideSim

SimNext ==
    \/ S_Start
    \/ S_Answer
    \/ S_Advance
    \/ S_PageRaises

SpecSim == SimInit /\ [][SimNext]_vars

(***************************************************************************)
(* Properties of the simulation (checked under SpecSim).                   *)
(***************************************************************************)
\* the text of the first answer flagged incorrect, or of the first answer
\* when none is flagged incorrect
PolicyAnswer(q) ==
    IF \E k \in 1..Len(q.answers) : ~q.answers[k].is_correct_answer
    THEN q.answers[CHOOSE j \in 1..Len(q.answers) :
                       /\ ~q.answers[j].is_correct_answer
                       /\ \A h \in 1..(j - 1) : q.answers[h].is_correct_answer].answer
    ELSE q.answers[1].answer

\* start, then for each question an answer click followed by next, or by
\* finish after the last question
PolicyClicks(ch) ==
    LET n == Len(ch.questions)
    IN  [j \in 1..(2 * n + 1) |->
            IF j = 1 THEN Click("start", "")
            ELSE IF j % 2 = 0 THEN Click("answer", PolicyAnswer(ch.questions[j \div 2]))
            ELSE IF j = 2 * n + 1 THEN Click("finish", "")
            ELSE Click("next", "")]

\* C12 as claimed: simulation sequence.  A simulation that went through a
\* chapter of N >= 1 questions clicked start once, then for each question
\* in order the first answer flagged incorrect (the first answer when none
\* is), followed by next, or by finish after the last question.
C12_SimulationSequence ==
    (s_pc = "returned" /\ s_chapter.questions # << >>)
        => s_clicks = PolicyClicks(s_chapter)

\* C14 as claimed: the "no answer found" failure is raised for a question
\* only when the question has no answers; a question with an answer,
\* whatever its text, gets its answer click.
C14_NoAnswerOnlyForZeroAnswers ==
    (s_pc = "raised" /\ s_error = "no_answer")
        => s_chapter.questions[s_qi].answers = << >>

(***************************************************************************)
(* ImageDownloader.download_to_base64 called on its own.  An image body    *)
(* is a sequence of bytes; base64 text is the sequence of the indexes of   *)
(* its characters in the base64 alphabet, 64 standing for the padding "=". *)
(***************************************************************************)
RECURSIVE B64Encode(_)
\* base64.b64encode(image_data).decode("utf-8")
B64Encode(bytes) ==
    IF bytes = << >> THEN << >>
    ELSE IF Len(bytes) = 1
    THEN << bytes[1] \div 4, (bytes[1] % 4) * 16, 64, 64 >>
    ELSE IF Len(bytes) = 2
    THEN << bytes[1] \div 4, (bytes[1] % 4) * 16 + bytes[2] \div 16,
            (bytes[2] % 16) * 4, 64 >>
    ELSE << bytes[1] \div 4, (bytes[1] % 4) * 16 + bytes[2] \div 16,
            (bytes[2] % 16) * 4 + bytes[3] \div 64, bytes[3] % 64 >>
         \o B64Encode(SubSeq(bytes, 4, Len(bytes)))

ImageUrls == {"https://site/a.png", "https://site/b.png"}

ImageBodies == UNION { [1..n -> {0, 77, 255}] : n \in 0..MaxBytes }

\* a retry guard that never gives up
MayRetryAlways(attempt, retries) == TRUE

\* a retry guard that allows one retry only
MayRetryOnce(attempt, retries) == attempt <= 1

\* `if attempt <= self.config.max_retries`
MayRetry(attempt, retries) == attempt <= retries

\* the error raised when the retries are used up, by what its message holds
ExhaustedError(image_url, retries) ==
    [text |-> "Failed to download image", url |-> Some(image_url),
     attempts |-> Some(retries + 1)]

\* what else than aiohttp.ClientError an attempt can raise: the
\* asyncio.TimeoutError of the total timeout of the request, or an error
\* that has nothing to do with the network
OtherErrors == {"timeout_error", "other_error"}

\* the error the exception_handler decorator raises in place of any other
\* exception
UnexpectedError ==
    [text |-> "Unexpected error downloading or encoding image", url |-> None,
     attempts |-> None]

FetchInit ==
    /\ ScrapeInit
    /\ NavOff
    /\ ContextOff
    /\ SessionOff
    /\ InsertOff
    /\ RaiseOff
    /\ ClickOff
    /\ BrowserOff
    /\ ExplainOff
    /\ DiscoverOff
    /\ MergeOff
    /\ SimOff
    /\ ExtractOff
    /\ f_pc = "attempt"
    /\ f_url \in ImageUrls
    /\ f_body \in ImageBodies
    /\ f_attempt = 1
    /\ f_history = << >>
    /\ f_max_retries \in 0..max_retries
    /\ f_sleeps = << >>
    /\ f_result = << >>
    /\ f_error = NoError

\* an attempt succeeds: the body is read, encoded and returned
F_AttemptSucceeds ==
    /\ f_pc = "attempt"
    /\ f_attempt <= f_max_retries + 1
    /\ f_result' = B64Encode(f_body)
    /\ f_pc' = "returned"
    /\ UNCHANGED << f_url, f_body, f_attempt, f_history, f_max_retries,
                    f_sleeps, f_error >>
    /\ UNCHANGED besideFetch

\* an attempt raises aiohttp.ClientError: sleep and try again, or raise
\* ImageDownloaderError when the retries are used up
F_AttemptClientError ==
    /\ f_pc = "attempt"
    /\ f_attempt <= f_max_retries + 1
    /\ f_history' = Append(f_history, "client_error")
    /\ IF MayRetry(f_attempt, f_max_retries)
       THEN /\ f_sleeps' = Append(f_sleeps, f_attempt)
            /\ f_attempt' = f_attempt + 1
            /\ UNCHANGED << f_pc, f_error >>
       ELSE /\ f_pc' = "raised"
            /\ f_error' = ExhaustedError(f_url, f_max_retries)
            /\ UNCHANGED << f_attempt, f_sleeps >>
    /\ UNCHANGED << f_url, f_body, f_max_retries, f_result >>
    /\ UNCHANGED besideFetch

\* an attempt raises anything else (asyncio.TimeoutError of the total
\* timeout, an error while reading or encoding): no except clause of the
\* loop takes it and the decorator raises ImageDownloaderError at once
F_AttemptOtherError(kind) ==
    /\ f_pc = "attempt"
    /\ f_attempt <= f_max_retries + 1
    /\ f_history' = Append(f_history, kind)
    /\ f_pc' = "raised"
    /\ f_error' = UnexpectedError
    /\ UNCHANGED << f_url, f_body, f_attempt, f_max_retries, f_sleeps,
                    f_result >>
    /\ UNCHANGED besideFetch

\* (the raise after the loop is never reached: the last turn of the loop
\* returns or raises)
FetchNext ==
    \/ F_AttemptSucceeds
    \/ F_AttemptClientError
    \/ \E kind \in OtherErrors : F_AttemptOtherError(kind)

SpecFetch == FetchInit /\ [][FetchNext]_vars

(***************************************************************************)
(* Properties of the download (checked under SpecFetch).                   *)
(***************************************************************************)
\* every attempt made so far failed with aiohttp.ClientError
OnlyClientErrors == \A k \in 1..Len(f_history) : f_history[k] = "client_error"

C15_WitnessExhausted ==
    /\ f_pc = "raised"
    /\ f_max_retries = max_retries
    /\ Len(f_history) = max_retries + 1
    /\ f_error = ExhaustedError(f_url, max_retries)

\* an attempt failed with a transient failure of the network
TransientKinds == {"client_error", "timeout_error"}

\* the call has ended with the attempt k
EndedAt(k) == f_pc # "attempt" /\ Len(f_history) = k

\* C34: every transient failure of an attempt, a timeout of the request
\* included, is followed by another attempt while retries are left, and
\* any other error ends the call at once with ImageDownloaderError.
C34_RetriesTransientOnly ==
    \A k \in 1..Len(f_history) :
        /\ f_history[k] \in TransientKinds /\ k <= f_max_retries =>
              ~(f_pc = "raised" /\ EndedAt(k))
        /\ f_history[k] = "other_error" =>
              /\ f_pc = "raised"
              /\ EndedAt(k)
              /\ f_error = UnexpectedError

\* the loop has run out of attempts without returning or raising: the
\* raise after the loop is reached
AfterLoop == f_pc = "attempt" /\ f_attempt > f_max_retries + 1

\* the attempts made so far: those that failed, and the one that returned
Attempts == Len(f_history) + (IF f_pc = "returned" THEN 1 ELSE 0)

\* C37: whatever max_retries >= 0 is, a download makes at most
\* max_retries + 1 attempts, sleeps only after a failed attempt that is
\* followed by another and never after the last, ends by returning the
\* payload or by raising ImageDownloaderError, never reaches the raise
\* after the loop, and does end.
C37_Bounded ==
    /\ Attempts <= f_max_retries + 1
    /\ ~AfterLoop
    /\ \A k \in 1..Len(f_sleeps) :
          /\ f_sleeps[k] = k
          /\ f_history[k] = "client_error"
          /\ k < f_attempt
    /\ Len(f_sleeps) = f_attempt - 1
    /\ f_pc = "returned" => f_result = B64Encode(f_body) /\ f_error = NoError
    /\ f_pc = "raised" =>
          /\ f_error \in {ExhaustedError(f_url, f_max_retries), UnexpectedError}
          /\ Len(f_sleeps) < Len(f_history)
    /\ f_pc = "attempt" => ENABLED FetchNext

\* the download that fair scheduling of its steps brings to an end
FairSpecFetch == FetchInit /\ [][FetchNext]_vars /\ WF_vars(FetchNext)

C37_Terminates == []C37_Bounded /\ <>(f_pc \in {"returned", "raised"})

\* a downloader with max_retries = 0 has raised after its only attempt,
\* without sleeping
C37_Witness ==
    /\ f_max_retries = 0
    /\ f_pc = "raised"
    /\ f_history = << "client_error" >>
    /\ f_sleeps = << >>

\* a download slept after each attempt but the last
C37_WitnessSlept ==
    /\ f_max_retries = 2
    /\ f_pc = "raised"
    /\ f_sleeps = << 1, 2 >>
    /\ Len(f_history) = 3
    /\ f_error = ExhaustedError(f_url, 2)

(***************************************************************************)
(* Extractor.get_test_chapter called on its own, on any page.  A page is   *)
(* its kind of source and, when it holds the variable, the JSON object     *)
(* assigned to it.  An optional key of a JSON object is a sequence of      *)
(* length 0 (absent) or 1; the CorrectAnswer key of an answer record is    *)
(* absent or holds null, false or true.                                    *)
(***************************************************************************)
base_url == "https://drive.govt.nz"

Markers == {"absent", "null", "false", "true"}

AnswerJson(i, k, marker, no_text) ==
    [ID |-> 100 * i + k - 1,
     Answer |-> IF no_text /\ k = 1 THEN None ELSE Some("answer " \o ToString(k)),
     CorrectAnswer |-> marker]

QuestionJson(i, has_image, markers, no_text) ==
    [ID |-> 10 * i,
     Question |-> "question " \o ToString(i),
     Image |-> IF has_image THEN Some("/image" \o ToString(i)) ELSE None,
     Answers |-> [k \in 1..Len(markers) |-> AnswerJson(i, k, markers[k], no_text)]]

\* the JSON objects a page may hold: up to max_questions questions, with
\* or without an image, of up to MaxAnswers answers each
ChapterJsons(max_questions) ==
    { [ID |-> 1, Title |-> title, Intro |-> "intro",
       Questions |-> [i \in DOMAIN images |->
                         QuestionJson(i, images[i], markers, no_text)]] :
        title \in {"T", "a};b"},
        images \in UNION { [1..n -> BOOLEAN] : n \in 0..max_questions },
        markers \in UNION { [1..n -> Markers] : n \in 0..MaxAnswers },
        no_text \in BOOLEAN }

Pages(max_questions) ==
    {[source |-> "no_variable"]}
        \cup { [source |-> src, json |-> j] : src \in {"bad_json", "json"},
                                              j \in ChapterJsons(max_questions) }

\* the strings of a JSON object of a chapter
JsonStrings(j) ==
    {j.Title, j.Intro}
        \cup { j.Questions[i].Question : i \in 1..Len(j.Questions) }
        \cup UNION { Range(j.Questions[i].Image) : i \in 1..Len(j.Questions) }
        \cup UNION { UNION { Range(j.Questions[i].Answers[k].Answer) :
                                k \in 1..Len(j.Questions[i].Answers) } :
                        i \in 1..Len(j.Questions) }

\* the text holds the two characters that end the match of `({.*?});`
HoldsCloseMark(text) == text \in {"a};b"}

\* what json.loads is given: the lazy group `({.*?})` ends at the first
\* "}" that is followed by ";", so the JSON text is cut short when one of
\* its strings holds "};"
CapturedSource(page) ==
    IF page.source = "json" /\ \E t \in JsonStrings(page.json) : HoldsCloseMark(t)
    THEN "bad_json"
    ELSE page.source

\* `a.get("CorrectAnswer") is not None`
IsCorrect(marker) == marker \notin {"absent", "null"}

\* Extractor._build_answers
BuildAnswers(raw_answers) ==
    [k \in 1..Len(raw_answers) |->
        AnswerSchema(raw_answers[k].ID,
                     IF raw_answers[k].Answer = None THEN ""
                     ELSE raw_answers[k].Answer[1],
                     IsCorrect(raw_answers[k].CorrectAnswer))]

\* the bytes the server sends for an image
ImageBody(image_url) == << 77 >>

\* how the download of the image of a raw question can go
DownloadOutcomes(q) ==
    IF q.Image = None THEN {"no_image"}
    ELSE {"downloaded", "downloader_error", "other_error"}

\* an except clause that takes ImageDownloaderError only
CatchesDownloaderError(outcome) == outcome = "downloader_error"

\* `except Exception` around download_to_base64
CatchesException(outcome) == outcome \in {"downloader_error", "other_error"}

\* Extractor._build_question_schema, the download having gone as outcome
BuildQuestionSchema(q, outcome) ==
    LET image_url == IF q.Image # None THEN Some(base_url \o q.Image[1]) ELSE None
    IN  [id |-> q.ID,
         question |-> q.Question,
         image_url |-> image_url,
         image_base64 |-> IF outcome = "downloaded"
                          THEN Some(B64Encode(ImageBody(image_url[1])))
                          ELSE None,
         answers |-> BuildAnswers(q.Answers)]

ExtractInit ==
    /\ ScrapeInit
    /\ NavOff
    /\ ContextOff
    /\ SessionOff
    /\ InsertOff
    /\ RaiseOff
    /\ ClickOff
    /\ BrowserOff
    /\ ExplainOff
    /\ DiscoverOff
    /\ MergeOff
    /\ SimOff
    /\ FetchOff
    /\ e_pc = "start"
    /\ e_page \in Pages(MaxQuestions)
    /\ e_qi = 1
    /\ e_built = << >>
    /\ e_fetch = << >>
    /\ e_chapter = NoChapter

\* the search for the variable and json.loads: ExtractorError, or the
\* parsed object
E_LoadJson ==
    /\ e_pc = "start"
    /\ e_pc' = IF GetTestChapterFails(CapturedSource(e_page)) THEN "raised"
               ELSE "questions"
    /\ UNCHANGED << e_page, e_qi, e_built, e_fetch, e_chapter >>
    /\ UNCHANGED besideExtract

\* _transform_questions: one call of _build_question_schema; a failure of
\* the download that the except clause does not take ends the extraction
E_BuildQuestion(outcome) ==
    /\ e_pc = "questions"
    /\ e_qi <= Len(e_page.json.Questions)
    /\ outcome \in DownloadOutcomes(e_page.json.Questions[e_qi])
    /\ e_fetch' = Append(e_fetch, outcome)
    /\ IF outcome \in {"no_image", "downloaded"} \/ CatchesException(outcome)
       THEN /\ e_built' = Append(e_built,
                              BuildQuestionSchema(e_page.json.Questions[e_qi], outcome))
            /\ e_qi' = e_qi + 1
            /\ e_pc' = e_pc
       ELSE /\ e_pc' = "raised"
            /\ UNCHANGED << e_built, e_qi >>
    /\ UNCHANGED << e_page, e_chapter >>
    /\ UNCHANGED besideExtract

\* the ChapterSchema is built from the object and the questions, and returned
E_Return ==
    /\ e_pc = "questions"
    /\ e_qi > Len(e_page.json.Questions)
    /\ e_chapter' = [id |-> e_page.json.ID, title |-> e_page.json.Title,
                     intro |-> e_page.json.Intro, questions |-> e_built]
    /\ e_pc' = "returned"
    /\ UNCHANGED << e_page, e_qi, e_built, e_fetch >>
    /\ UNCHANGED besideExtract

ExtractNext ==
    \/ E_LoadJson
    \/ \E outcome \in {"no_image", "downloaded", "downloader_error", "other_error"} :
          E_BuildQuestion(outcome)
    \/ E_Return

SpecExtract == ExtractInit /\ [][ExtractNext]_vars

(***************************************************************************)
(* Properties of the extraction (checked under SpecExtract).               *)
(***************************************************************************)
RawQuestions == e_page.json.Questions

\* the questions of which the extraction has made a QuestionSchema so far
Built == IF e_pc = "returned" THEN e_chapter.questions ELSE e_built

\* C16: a failed image fetch never aborts the extraction.  The extraction
\* raises only before any question is built; a question whose download
\* failed, in whatever way, keeps its image_url and has no image_base64,
\* and every question and answer is otherwise as after a download that
\* succeeded.
C16_FailedImageFetchSwallowed ==
    /\ e_pc = "raised" => e_fetch = << >>
    /\ (e_pc = "questions" /\ e_qi > Len(RawQuestions)) => ENABLED E_Return
    /\ e_pc \in {"questions", "returned"} =>
          /\ Len(Built) = Len(e_fetch)
          /\ \A i \in 1..Len(Built) :
                /\ Built[i].image_url =
                      IF RawQuestions[i].Image = None THEN None
                      ELSE Some(base_url \o RawQuestions[i].Image[1])
                /\ e_fetch[i] \in {"downloader_error", "other_error"} =>
                      /\ Built[i].image_url # None
                      /\ Built[i].image_base64 = None
                      /\ Built[i] =
                            [BuildQuestionSchema(RawQuestions[i], "downloaded")
                                EXCEPT !.image_base64 = None]
    /\ e_pc = "returned" => Len(Built) = Len(RawQuestions)

\* C16 witness: the extraction has returned a chapter of two questions;
\* the download of the first image failed outside of the downloader's own
\* error, and the second question has its image
C16_Witness ==
    /\ e_pc = "returned"
    /\ e_fetch = << "other_error", "downloaded" >>
    /\ e_chapter.questions[1].image_url # None
    /\ e_chapter.questions[1].image_base64 = None
    /\ e_chapter.questions[2].image_base64 # None
    /\ e_chapter.questions[1].answers # << >>

\* C17 as claimed: an extracted answer has is_correct_answer = true if and
\* only if the key CorrectAnswer is on its source record, whatever the
\* value of the key (null and false included).
C17_CorrectIffKeyPresent ==
    e_pc \in {"questions", "returned"} =>
        \A i \in 1..Len(Built) : \A k \in 1..Len(Built[i].answers) :
            Built[i].answers[k].is_correct_answer
                <=> (RawQuestions[i].Answers[k].CorrectAnswer # "absent")

\* the page holds a JSON object with every key of every record
WellFormed(page) ==
    /\ page.source = "json"
    /\ \A i \in 1..Len(page.json.Questions) :
          \A k \in 1..Len(page.json.Questions[i].Answers) :
             page.json.Questions[i].Answers[k].Answer # None

\* C18 as claimed: extraction round trip.  For any well-formed embedded
\* JSON the extraction returns a chapter with the id, title and intro of
\* the JSON, its questions in order and, for each question, its answers in
\* order with their ids and texts.
C18_ExtractionRoundTrip ==
    WellFormed(e_page) =>
        /\ e_pc # "raised"
        /\ e_pc = "returned" =>
              /\ e_chapter.id = e_page.json.ID
              /\ e_chapter.title = e_page.json.Title
              /\ e_chapter.intro = e_page.json.Intro
              /\ Len(e_chapter.questions) = Len(RawQuestions)
              /\ \A i \in 1..Len(RawQuestions) :
                    /\ e_chapter.questions[i].id = RawQuestions[i].ID
                    /\ Len(e_chapter.questions[i].answers) = Len(RawQuestions[i].Answers)
                    /\ \A k \in 1..Len(RawQuestions[i].Answers) :
                          /\ e_chapter.questions[i].answers[k].id =
                                RawQuestions[i].Answers[k].ID
                          /\ Some(e_chapter.questions[i].answers[k].answer) =
                                RawQuestions[i].Answers[k].Answer

(***************************************************************************)
(* Extractor.get_all_road_code_tests_url called on its own.  The landing   *)
(* page is its card lists (`div.card__list`), each a list of cards; a card  *)
(* has an anchor or not, and an anchor has an href attribute or not.       *)
(***************************************************************************)
Card(anchor, href) == [anchor |-> anchor, href |-> href]

\* the cards a card list may end with, card k of card list g
LastCards(g, k) ==
    { Card(FALSE, None), Card(TRUE, None), Card(TRUE, Some("")),
      Card(TRUE, Some("/test" \o ToString(g) \o ToString(k))) }

\* a card before the last: without a link, or with one
EarlierCard(g, k, linked) ==
    IF linked THEN Card(TRUE, Some("/page" \o ToString(g) \o ToString(k)))
    ELSE Card(FALSE, None)

\* the card lists of up to MaxLinks cards that card list g may be
CardLists(g) ==
    UNION { { [k \in 1..n |-> IF k = n THEN last ELSE EarlierCard(g, k, linked[k])] :
                 linked \in [1..(n - 1) -> BOOLEAN], last \in LastCards(g, n) } :
            n \in 1..MaxLinks } \cup { << >> }

RECURSIVE LandingPagesOf(_)
\* the landing pages of n card lists
LandingPagesOf(n) ==
    IF n = 0 THEN { << >> }
    ELSE { Append(p, c) : p \in LandingPagesOf(n - 1), c \in CardLists(n) }

\* the landing pages of up to max_groups card lists
LandingPages(max_groups) == UNION { LandingPagesOf(n) : n \in 0..max_groups }

\* a choice of the first card of the list
FirstCard(card_list) == card_list[1]

\* `last_card = cards[-1]`
LastCard(card_list) == card_list[Len(card_list)]

\* what one turn of the loop appends for a card list: nothing, or the
\* absolute URL of the anchor of its last card
CardListUrls(card_list) ==
    IF card_list = << >> THEN << >>
    ELSE LET last_card == LastCard(card_list)
         IN  IF last_card.anchor /\ Truthy(last_card.href)
             THEN << base_url \o last_card.href[1] >>
             ELSE << >>

DiscoverInit ==
    /\ ScrapeInit
    /\ NavOff
    /\ ContextOff
    /\ SessionOff
    /\ InsertOff
    /\ RaiseOff
    /\ ClickOff
    /\ BrowserOff
    /\ ExplainOff
    /\ MergeOff
    /\ SimOff
    /\ FetchOff
    /\ ExtractOff
    /\ d_pc = "loop"
    /\ d_groups \in LandingPages(MaxGroups)
    /\ d_i = 1
    /\ d_urls = << >>

\* one turn of `for card_list in card_lists`
D_CardList ==
    /\ d_pc = "loop"
    /\ d_i <= Len(d_groups)
    /\ d_urls' = d_urls \o CardListUrls(d_groups[d_i])
    /\ d_i' = d_i + 1
    /\ UNCHANGED << d_pc, d_groups >>
    /\ UNCHANGED besideDiscover

\* a query of the page raises: the decorator raises ExtractorError
D_QueryRaises ==
    /\ d_pc = "loop"
    /\ d_i <= Len(d_groups)
    /\ d_pc' = "raised"
    /\ UNCHANGED << d_groups, d_i, d_urls >>
    /\ UNCHANGED besideDiscover

\* `return urls`
D_Return ==
    /\ d_pc = "loop"
    /\ d_i > Len(d_groups)
    /\ d_pc' = "returned"
    /\ UNCHANGED << d_groups, d_i, d_urls >>
    /\ UNCHANGED besideDiscover

DiscoverNext ==
    \/ D_CardList
    \/ D_QueryRaises
    \/ D_Return

SpecDiscover == DiscoverInit /\ [][DiscoverNext]_vars

(***************************************************************************)
(* Properties of the URL discovery (checked under SpecDiscover).           *)
(***************************************************************************)
\* the card list is not empty and its last card has a link with an href
EndsWithLink(card_list) ==
    /\ card_list # << >>
    /\ card_list[Len(card_list)].anchor
    /\ card_list[Len(card_list)].href \notin {None, Some("")}

\* the card lists among the first n that end with a link
LinkedGroups(n) == { g \in 1..n : EndsWithLink(d_groups[g]) }

\* C20: URL discovery returns, in the order of the card lists, exactly one
\* absolute URL for each non-empty card list whose last card has a link
\* with an href, namely the base URL followed by that href; the earlier
\* cards of a list are never used, and an empty list gives nothing.
C20_LastLinkOfEachGroup ==
    /\ d_pc \in {"loop", "returned"} =>
          /\ Len(d_urls) = Cardinality(LinkedGroups(d_i - 1))
          /\ \A g \in LinkedGroups(d_i - 1) :
                d_urls[Cardinality(LinkedGroups(g))] =
                    base_url \o d_groups[g][Len(d_groups[g])].href[1]
    /\ d_pc = "returned" => d_i = Len(d_groups) + 1

\* C20 witness: the discovery has returned one URL for two card lists: the
\* first has a link on its first card only, the second ends with a link
C20_Witness ==
    /\ d_pc = "returned"
    /\ Len(d_groups) = 2
    /\ Len(d_groups[1]) = 2
    /\ d_groups[1][1].href # None
    /\ ~d_groups[1][2].anchor
    /\ Len(d_groups[2]) = 2
    /\ d_groups[2][1].href # None
    /\ EndsWithLink(d_groups[2])
    /\ d_urls = << base_url \o d_groups[2][2].href[1] >>

(***************************************************************************)
(* Extractor.get_correct_answers_explanations on its own.  A text is a     *)
(* sequence of tokens: a word, a blank or a newline.  A lookup of a        *)
(* sub-selector in a card finds no element ("missing"), raises, or gives    *)
(* the inner text of the element it found.                                 *)
(***************************************************************************)
MaxResultCards == 2

Blank == " "

Newline == "\n"

explanation_selectors == << "explanation_main", "explanation_additional" >>

\* what _get_text_from_selector does for one sub-selector of card i
Lookup(i, selector, kind) ==
    CASE kind = "missing" -> [kind |-> "missing", text |-> None]
      [] kind = "raises"  -> [kind |-> "raises", text |-> None]
      [] kind = "empty"   -> [kind |-> "text", text |-> Some(<< >>)]
      [] kind = "blank"   -> [kind |-> "text", text |-> Some(<< Blank >>)]
      [] kind = "plain"   -> [kind |-> "text",
                              text |-> Some(<< selector \o ToString(i) >>)]
      [] kind = "padded"  -> [kind |-> "text",
                              text |-> Some(<< Blank, selector \o ToString(i),
                                               Blank >>)]

MainKinds == {"missing", "raises", "empty", "blank", "plain", "padded"}

AdditionalKinds == {"missing", "raises", "plain"}

ResultCard(i, main, additional) ==
    [explanation_main |-> Lookup(i, "explanation_main", main),
     explanation_additional |->
         Lookup(i, "explanation_additional", additional)]

\* the results pages: up to max_cards cards
ResultPages(max_cards) ==
    UNION { { [i \in 1..n |-> ResultCard(i, kinds[i][1], kinds[i][2])] :
              kinds \in [1..n -> MainKinds \X AdditionalKinds] } :
            n \in 0..max_cards }

\* str.strip(): the text without its leading and trailing blanks
Strip(text) ==
    LET inked == { k \in 1..Len(text) : text[k] # Blank }
    IN  IF inked = {} THEN << >>
        ELSE SubSeq(text,
                    CHOOSE k \in inked : \A j \in inked : k <= j,
                    CHOOSE k \in inked : \A j \in inked : j <= k)

\* `if text:` after a lookup that returned
HasText(lookup) == lookup.kind = "text" /\ lookup.text[1] # << >>

\* _extract_explanation_from_card: the texts found, in the order of the
\* selectors; an exception of a lookup is suppressed
ExtractExplanationFromCard(card) ==
    LET part(selector) == IF HasText(card[selector])
                          THEN << card[selector].text[1] >>
                          ELSE << >>
    IN  part(explanation_selectors[1]) \o part(explanation_selectors[2])

\* "\n".join(p.strip() for p in parts if p)
RECURSIVE JoinStripped(_)

JoinStripped(parts) ==
    LET kept == SelectSeq(parts, LAMBDA p : p # << >>)
    IN  IF kept = << >> THEN << >>
        ELSE IF Len(kept) = 1 THEN Strip(kept[1])
        ELSE Strip(kept[1]) \o << Newline >> \o JoinStripped(Tail(kept))

\* an append that leaves out a card without any text
AppendIfAny(so_far, parts) ==
    IF parts = << >> THEN so_far ELSE Append(so_far, JoinStripped(parts))

\* explanations.append("\n".join(...))
AppendExplanation(so_far, parts) == Append(so_far, JoinStripped(parts))

\* the lookups of card i whose exception `with suppress(Exception)` swallows
Suppressed(i, card) ==
    { << i, explanation_selectors[k] >> :
        k \in { j \in 1..2 : card[explanation_selectors[j]].kind = "raises" } }

ExplainInit ==
    /\ ScrapeInit
    /\ NavOff
    /\ ContextOff
    /\ SessionOff
    /\ InsertOff
    /\ RaiseOff
    /\ ClickOff
    /\ BrowserOff
    /\ MergeOff
    /\ SimOff
    /\ FetchOff
    /\ ExtractOff
    /\ DiscoverOff
    /\ x_pc = "query"
    /\ x_cards \in ResultPages(MaxResultCards)
    /\ x_i = 1
    /\ x_explanations = << >>
    /\ x_log = << >>
    /\ x_suppressed = {}

\* query_selector_all returns the cards; `if not cards:` logs and raises
X_QueryCards ==
    /\ x_pc = "query"
    /\ IF x_cards = << >>
       THEN /\ x_log' = Append(x_log, [level |-> "error", about |-> << "no cards" >>])
            /\ x_pc' = "raised"
       ELSE /\ x_log' = x_log
            /\ x_pc' = "card"
    /\ UNCHANGED << x_cards, x_i, x_explanations, x_suppressed >>
    /\ UNCHANGED besideExplain

\* query_selector_all raises: the decorator logs and raises ExtractorError
X_QueryRaises ==
    /\ x_pc = "query"
    /\ x_log' = Append(x_log, [level |-> "exception", about |-> << "query" >>])
    /\ x_pc' = "raised"
    /\ UNCHANGED << x_cards, x_i, x_explanations, x_suppressed >>
    /\ UNCHANGED besideExplain

\* one turn of `for card in cards`
X_Card ==
    /\ x_pc = "card"
    /\ x_i <= Len(x_cards)
    /\ x_explanations' =
          AppendExplanation(x_explanations,
                            ExtractExplanationFromCard(x_cards[x_i]))
    /\ x_suppressed' = x_suppressed \cup Suppressed(x_i, x_cards[x_i])
    /\ x_i' = x_i + 1
    /\ UNCHANGED << x_pc, x_cards, x_log >>
    /\ UNCHANGED besideExplain

\* `return explanations`
X_Return ==
    /\ x_pc = "card"
    /\ x_i > Len(x_cards)
    /\ x_log' = Append(x_log, [level |-> "info", about |-> << "extracted" >>])
    /\ x_pc' = "returned"
    /\ UNCHANGED << x_cards, x_i, x_explanations, x_suppressed >>
    /\ UNCHANGED besideExplain

ExplainNext ==
    \/ X_QueryCards
    \/ X_QueryRaises
    \/ X_Card
    \/ X_Return

SpecExplain == ExplainInit /\ [][ExplainNext]_vars

(***************************************************************************)
(* Properties of the explanation extraction (checked under SpecExplain).   *)
(***************************************************************************)
\* the words a text holds
Words(text) == { text[k] : k \in { j \in 1..Len(text) :
                                     text[j] \notin {Blank, Newline} } }

\* the words a lookup of card i gave
CardWords(card) ==
    UNION { IF card[explanation_selectors[k]].kind = "text"
            THEN Words(card[explanation_selectors[k]].text[1])
            ELSE {} : k \in 1..2 }

\* C21: the extraction gives one explanation per results card, in the order
\* of the cards (the k-th string is made of the words of the k-th card and
\* of all of them), also for a card that lacks one or both sub-selectors; it
\* raises when the page has no card, and for no other page unless the query
\* of the cards itself raises.
C21_OneExplanationPerCard ==
    /\ x_pc \in {"card", "returned"} =>
          /\ x_cards # << >>
          /\ Len(x_explanations) = x_i - 1
          /\ \A k \in 1..Len(x_explanations) :
                Words(x_explanations[k]) = CardWords(x_cards[k])
    /\ x_pc = "returned" => Len(x_explanations) = Len(x_cards)
    /\ x_pc = "raised" =>
          /\ x_explanations = << >>
          /\ \/ x_cards = << >>
             \/ x_log[Len(x_log)].about = << "query" >>

\* the parts of a card that are not empty once trimmed, trimmed, in the
\* order of the selectors
TrimmedParts(card) ==
    LET part(selector) ==
            IF card[selector].kind = "text"
               /\ Strip(card[selector].text[1]) # << >>
            THEN << Strip(card[selector].text[1]) >>
            ELSE << >>
    IN  part("explanation_main") \o part("explanation_additional")

RECURSIVE JoinLines(_)

\* the parts, with a newline between each two
JoinLines(parts) ==
    IF parts = << >> THEN << >>
    ELSE IF Len(parts) = 1 THEN parts[1]
    ELSE parts[1] \o << Newline >> \o JoinLines(Tail(parts))

\* C36: each explanation is its card's trimmed parts joined by newlines,
\* main explanation first, and a part that is empty or blank adds neither
\* text nor a newline.
C36_TrimmedPartsJoined ==
    \A k \in 1..Len(x_explanations) :
        x_explanations[k] = JoinLines(TrimmedParts(x_cards[k]))

\* the call returned for a page one of whose cards lacks both sub-selectors
\* and another lacks one
C21_Witness ==
    /\ x_pc = "returned"
    /\ Len(x_cards) = 2
    /\ x_cards[1].explanation_main.kind = "missing"
    /\ x_cards[1].explanation_additional.kind = "missing"
    /\ x_explanations[1] = << >>
    /\ x_cards[2].explanation_main.text =
          Some(<< Blank, "explanation_main2", Blank >>)
    /\ x_cards[2].explanation_additional.kind = "missing"
    /\ x_explanations[2] = << "explanation_main2" >>

\* the call raised for a page without cards
C21_WitnessNoCards ==
    /\ x_pc = "raised"
    /\ x_cards = << >>
    /\ x_log = << [level |-> "error", about |-> << "no cards" >>] >>

\* C28: every failure the run catches and goes on from has its log record;
\* here, every lookup of a sub-selector whose exception was swallowed.
C28_CaughtFailuresLogged ==
    \A lookup \in x_suppressed :
        \E k \in 1..Len(x_log) : x_log[k].about = lookup

(***************************************************************************)
(* `async with Scraper() as scraper: <body>` on its own: Scraper.__aenter__ *)
(* enters Browser.page, the body runs, Scraper.__aexit__ leaves Browser.page *)
(* and Browser._cleanup closes the handles.                                *)
(***************************************************************************)
BrowserTypes == {"chromium", "firefox", "webkit"}

\* how the body of the block may end: it returns, or it raises an error of
\* the application, another Exception, or a BaseException (CancelledError)
BodyOutcomes == {"returned", "NZRoadCodeTestError", "Exception", "BaseException"}

\* the arguments Browser.page hands to _cleanup, in the order _cleanup
\* looks at them: context, browser, playwright (each None unless acquired)
CleanupOrder(acquired) ==
    SelectSeq(<< "context", "browser", "playwright" >>,
              LAMBDA h : \E k \in 1..Len(acquired) : acquired[k] = h)

\* an __aenter__ that swallows the failure of the setup
AenterAlwaysEnters(setup) == "entered"

\* Scraper.__aenter__: the page is obtained, or the failure is logged and
\* raised as ScraperError
AenterOutcome(setup) == IF setup = "ok" THEN "entered" ELSE "ScraperError"

\* the exit of Browser.page for the way the body ended: the except clauses
\* re-raise an application error and wrap another Exception in a new
\* BrowserError; the context manager's __aexit__ raises only a new exception
PageExitRaises(body) == body = "Exception"

\* how the block ends once Scraper.__aexit__ has returned None: as its body
BlockOutcome(body) == body

BrowserInit ==
    /\ ScrapeInit
    /\ NavOff
    /\ ContextOff
    /\ SessionOff
    /\ InsertOff
    /\ RaiseOff
    /\ ClickOff
    /\ MergeOff
    /\ SimOff
    /\ FetchOff
    /\ ExtractOff
    /\ DiscoverOff
    /\ ExplainOff
    /\ b_pc = "start"
    /\ b_type \in BrowserTypes
    /\ b_setup = "none"
    /\ b_acquired = << >>
    /\ b_body = "none"
    /\ b_todo = << >>
    /\ b_closes = << >>
    /\ b_log = << >>
    /\ b_outcome = "none"

\* a step of the setup succeeds and gives its handle
Acquire(at, handle, then) ==
    /\ b_pc = at
    /\ b_acquired' = Append(b_acquired, handle)
    /\ b_pc' = then
    /\ UNCHANGED << b_type, b_setup, b_body, b_todo, b_closes, b_log, b_outcome >>
    /\ UNCHANGED besideBrowser

\* a step of the setup raises: the except clauses of Browser.page pass a
\* BrowserError on and wrap anything else (logging it), then `finally`
\* calls _cleanup with the handles acquired so far
SetupRaises(at, wrapped) ==
    /\ b_pc = at
    /\ b_setup' = at
    /\ b_log' = IF wrapped
                THEN Append(b_log, [level |-> "error", about |-> "page setup"])
                ELSE b_log
    /\ b_todo' = CleanupOrder(b_acquired)
    /\ b_pc' = "cleanup"
    /\ UNCHANGED << b_type, b_acquired, b_body, b_closes, b_outcome >>
    /\ UNCHANGED besideBrowser

\* _start_playwright
B_StartPlaywright == Acquire("start", "playwright", "launch")

B_StartPlaywrightRaises == SetupRaises("start", TRUE)

\* _launch_browser
B_LaunchBrowser == Acquire("launch", "browser", "context")

B_LaunchBrowserRaises == SetupRaises("launch", FALSE)

\* _create_context
B_CreateContext == Acquire("context", "context", "page")

B_CreateContextRaises == SetupRaises("context", FALSE)

\* _new_page, then `yield page_instance`: Scraper.__aenter__ returns
B_NewPage ==
    /\ b_pc = "page"
    /\ b_setup' = "ok"
    /\ b_log' = Append(b_log, [level |-> "info", about |-> "page obtained"])
    /\ b_pc' = "body"
    /\ UNCHANGED << b_type, b_acquired, b_body, b_todo, b_closes, b_outcome >>
    /\ UNCHANGED besideBrowser

B_NewPageRaises == SetupRaises("page", FALSE)

\* the body of the block ends; Scraper.__aexit__ leaves Browser.page, whose
\* `finally` calls _cleanup (nothing is left to run when the setup failed)
B_Body(outcome) ==
    /\ b_pc = "body"
    /\ b_body' = outcome
    /\ b_log' = IF b_setup = "ok" /\ outcome = "Exception"
                THEN Append(b_log, [level |-> "error", about |-> "page setup"])
                ELSE b_log
    /\ b_todo' = IF b_setup = "ok" THEN CleanupOrder(b_acquired) ELSE << >>
    /\ b_pc' = "cleanup"
    /\ UNCHANGED << b_type, b_setup, b_acquired, b_closes, b_outcome >>
    /\ UNCHANGED besideBrowser

\* _cleanup: the close of the next handle succeeds
B_Close ==
    /\ b_pc = "cleanup"
    /\ b_todo # << >>
    /\ b_closes' = Append(b_closes, [handle |-> Head(b_todo), raised |-> FALSE])
    /\ b_todo' = Tail(b_todo)
    /\ UNCHANGED << b_pc, b_type, b_setup, b_acquired, b_body, b_log, b_outcome >>
    /\ UNCHANGED besideBrowser

\* _cleanup: the close of the next handle raises; `except Exception` logs a
\* warning and _cleanup returns
B_CloseRaises ==
    /\ b_pc = "cleanup"
    /\ b_todo # << >>
    /\ b_closes' = Append(b_closes, [handle |-> Head(b_todo), raised |-> TRUE])
    /\ b_todo' = << >>
    /\ b_log' = Append(b_log, [level |-> "warning", about |-> "cleanup"])
    /\ UNCHANGED << b_pc, b_type, b_setup, b_acquired, b_body, b_outcome >>
    /\ UNCHANGED besideBrowser

\* _cleanup has returned.  In __aenter__: the failure of the setup reaches
\* the except clause of Scraper.__aenter__.  In __aexit__: an exception of
\* Browser.page's exit is logged and dropped, and the block ends as its
\* body did.
B_CleanupReturns ==
    /\ b_pc = "cleanup"
    /\ b_todo = << >>
    /\ IF b_body = "none"
       THEN IF AenterOutcome(b_setup) = "entered"
            THEN /\ b_pc' = "body"
                 /\ b_log' = Append(b_log, [level |-> "info",
                                            about |-> "page obtained"])
                 /\ b_outcome' = b_outcome
            ELSE /\ b_pc' = "done"
                 /\ b_log' = Append(b_log, [level |-> "exception",
                                            about |-> "scraper context"])
                 /\ b_outcome' = AenterOutcome(b_setup)
       ELSE /\ b_pc' = "done"
            /\ b_log' = Append(b_log,
                  IF b_setup = "ok" /\ PageExitRaises(b_body)
                  THEN [level |-> "error", about |-> "scraper cleanup"]
                  ELSE [level |-> "info", about |-> "page context exited"])
            /\ b_outcome' = BlockOutcome(b_body)
    /\ UNCHANGED << b_type, b_setup, b_acquired, b_body, b_todo, b_closes >>
    /\ UNCHANGED besideBrowser

BrowserNext ==
    \/ B_StartPlaywright
    \/ B_StartPlaywrightRaises
    \/ B_LaunchBrowser
    \/ B_LaunchBrowserRaises
    \/ B_CreateContext
    \/ B_CreateContextRaises
    \/ B_NewPage
    \/ B_NewPageRaises
    \/ \E outcome \in BodyOutcomes : B_Body(outcome)
    \/ B_Close
    \/ B_CloseRaises
    \/ B_CleanupReturns

SpecBrowser == BrowserInit /\ [][BrowserNext]_vars

(***************************************************************************)
(* Properties of the block (checked under SpecBrowser).                    *)
(***************************************************************************)
\* a close of _cleanup raised
TeardownFailed == \E k \in 1..Len(b_closes) : b_closes[k].raised

\* the handles _cleanup called close on, in order
ClosedHandles == [k \in 1..Len(b_closes) |-> b_closes[k].handle]

\* C22: when the playwright instance, the browser and the context were
\* acquired, the exit of the page context (after a normal return, an error
\* of the body or a failure of the setup) closes each of them exactly once,
\* in the reverse of the order of creation, also when an earlier close fails.
C22_EveryHandleClosedOnce ==
    b_pc = "done" /\ Len(b_acquired) = 3 =>
        ClosedHandles = << "context", "browser", "playwright" >>

\* C23 as stated: a browsing failure during the setup or the teardown of
\* the run makes the block end with an error.
C23_SetupOrTeardownFatal ==
    b_pc = "done" /\ (b_setup # "ok" \/ TeardownFailed) =>
        b_outcome # "returned"

\* C23, amended: a failure of the setup ends the block with ScraperError
\* before the body runs; a failure of the teardown is logged as a warning
\* and dropped, and the block ends as its body did.
C23_SetupFatalTeardownLogged ==
    /\ b_pc = "done" /\ b_setup # "ok" =>
          b_outcome = "ScraperError" /\ b_body = "none"
    /\ b_pc = "done" /\ b_setup = "ok" => b_outcome = b_body
    /\ b_pc = "done" /\ TeardownFailed =>
          \E k \in 1..Len(b_log) :
              b_log[k] = [level |-> "warning", about |-> "cleanup"]

\* the body returned, the close of the context raised, and the block ended
\* normally
C23_Witness ==
    /\ b_pc = "done"
    /\ b_setup = "ok"
    /\ b_body = "returned"
    /\ b_closes = << [handle |-> "context", raised |-> TRUE] >>
    /\ b_outcome = "returned"

\* the launch of the browser raised and the block ended with ScraperError
C23_WitnessSetup ==
    /\ b_pc = "done"
    /\ b_setup = "launch"
    /\ ClosedHandles = << "playwright" >>
    /\ b_outcome = "ScraperError"

(***************************************************************************)
(* Further properties of the run of scrape (checked under Spec).           *)
(***************************************************************************)
\* the steps that end the processing of a URL: it is persisted, skipped or
\* failed
TerminalSteps == {"insert", "skip", "exists:true", "error"}

\* the processing of the URL the log is about has ended (or none has begun)
AtLoopTop == log = << >> \/ log[Len(log)] \in TerminalSteps

\* C24: a cancellation that arrives while a URL is processed takes effect
\* at the top of the per-URL loop only, once that URL has reached its
\* outcome; no step of the next URL starts, and the session of the store is
\* closed with nothing left in its transaction.
C24_CancelledBetweenChapters ==
    pc = "interrupted" =>
        /\ AtLoopTop
        /\ sess = "closed"
        /\ pending = << >>
        /\ txn = EmptyRows

\* the steps that may follow a step in the processing of one URL
Follows(step) ==
    CASE step = "navigate"     -> {"extract", "error"}
      [] step = "extract"      -> {"skip", "exists:true", "exists:false", "error"}
      [] step = "exists:false" -> {"start", "error"}
      [] step = "start"        -> {"answer", "error"}
      [] step = "answer"       -> {"next", "finish", "error"}
      [] step = "next"         -> {"answer", "error"}
      [] step = "finish"       -> {"accordion", "error"}
      [] step = "accordion"    -> {"explanations", "error"}
      [] step = "explanations" -> {"merge", "error"}
      [] step = "merge"        -> {"insert", "error"}
      [] OTHER                 -> {}

\* the steps are in the order of the per-chapter state machine
InStepOrder(steps) ==
    /\ steps # << >> => steps[1] \in {"navigate", "error"}
    /\ \A k \in 1..(Len(steps) - 1) : steps[k + 1] \in Follows(steps[k])

\* C26: the steps of a URL occur in the order navigate, extract, existence
\* check, simulate (start, answers, finish), open the accordion, extract the
\* explanations, merge, insert, each after the one before it succeeded; and
\* the next URL is at the top of the loop only when the URL before it has
\* been persisted, skipped or failed, and inside its steps only while it has
\* not.
C26_StepOrder ==
    /\ InStepOrder(log)
    /\ pc = "loop" => AtLoopTop
    /\ pc = "loop" /\ idx > 1 => log # << >>
    /\ InRun /\ pc # "loop" =>
          /\ idx <= Len(urls)
          /\ ~AtLoopTop
    /\ failed \subseteq 1..(idx - 1)

\* a chapter of two questions went through every step and was staged; the
\* loop is at the next URL
C26_Witness ==
    /\ pc = "loop"
    /\ idx = 2
    /\ Len(urls) = 2
    /\ log = << "navigate", "extract", "exists:false", "start", "answer",
                "next", "answer", "finish", "accordion", "explanations",
                "merge", "insert" >>

\* C35: a scrape whose list of URLs is empty, given or discovered, returns
\* without raising: no session is opened, no chapter is navigated to,
\* simulated or inserted, and the store is as it was.
C35_NoUrlsReturns ==
    (urls = << >> /\ pc # "idle" /\ raised = "none") =>
        /\ pc = "returned"
        /\ log = << >>
        /\ sess = "closed"
        /\ pending = << >>
        /\ txn = EmptyRows
        /\ chapter = NoChapter
        /\ inserted = {}
        /\ failed = {}
        /\ db = dbAtRunStart

\* a scrape of no URLs has returned, on a store an earlier run filled
C35_Witness ==
    /\ pc = "returned"
    /\ urls = << >>
    /\ log = << >>
    /\ db # EmptyRows

\* the chapter ids that more than one URL of the list serves
RepeatedChapterIds ==
    { SitePage(urls[j]).id :
        j \in { i \in 1..Len(urls) :
                  \E k \in 1..Len(urls) :
                      k # i /\ SitePage(urls[k]).id = SitePage(urls[i]).id } }

\* C38: a chapter that an earlier URL of the run staged is not simulated
\* or inserted again: an existence check that returns for a later URL
\* serving the same chapter id finds it, and when scrape returns the store
\* holds the chapter once, with all its questions and answers.
C38_RepeatedChapterOnce ==
    /\ (InRun /\ pc # "loop" /\ \E k \in 1..Len(log) : log[k] = "exists:false")
          => chapter.id \notin inserted
    /\ (InRun /\ pc # "loop" /\ HasWork(log)) => chapter.id \notin inserted
    /\ pc = "returned" =>
          \A c \in inserted \cap RepeatedChapterIds :
              /\ Cardinality({ r \in db.chapters : r.id = c }) = 1
              /\ \A u \in Urls :
                    SitePage(u).id = c => FullyPresent(SitePage(u), db)

\* a list that names one chapter twice: the first URL staged it, the second
\* was skipped at the existence check, and the chapter is committed
C38_Witness ==
    /\ pc = "returned"
    /\ urls = << 2, 2 >>
    /\ inserted = {2}
    /\ failed = {}
    /\ log = << "navigate", "extract", "exists:true" >>
    /\ FullyPresent(SitePage(2), db)

\* C39: a chapter extracted with no questions is skipped before the
\* existence check: it gets no existence check, no click of the simulation
\* and no insert, it never reaches the session or the store, and the loop
\* goes on to the next URL without counting a failure.
C39_EmptyChapterSkipped ==
    /\ (InRun /\ pc \notin {"loop", "navigated"} /\ chapter.questions = << >>)
          => /\ pc = "extracted"
             /\ log = << "navigate", "extract" >>
             /\ ENABLED SkipEmpty
             /\ ~ENABLED ExistsCheck
    /\ (pc = "loop" /\ idx > 1 /\ log # << >> /\ log[Len(log)] = "skip")
          => /\ log = << "navigate", "extract", "skip" >>
             /\ SitePage(urls[idx - 1]).questions = << >>
             /\ idx - 1 \notin failed
    /\ (pc = "loop" /\ idx > 1 /\ SitePage(urls[idx - 1]).questions = << >>)
          => log \in { << "navigate", "extract", "skip" >>, << "error" >>,
                       << "navigate", "error" >> }
    /\ \A u \in Urls :
          SitePage(u).questions = << >> =>
              /\ SitePage(u).id \notin inserted
              /\ SitePage(u).id \notin ChapterIds(RowsUnion(db, RowsUnion(txn, PendingRows(pending))))

\* a chapter without questions was skipped and the next URL of the list
\* was scraped and committed
C39_Witness ==
    /\ pc = "returned"
    /\ urls = << 4, 2 >>
    /\ failed = {}
    /\ inserted = {2}
    /\ ChapterIds(db) = {2}

(***************************************************************************)
(* PageHandler._click_if_visible on its own.  An attempt waits for the     *)
(* element to be visible and clicks it; either call may time out or raise  *)
(* another error.                                                          *)
(***************************************************************************)
MaxClickRetries == 2

\* `retries: int = 1`
DefaultRetries == 1

\* the commands that click through _click_if_visible
ClickOperations == {"Start button", "Answer", "Next question button",
                    "Finish button", "Answer accordion toggle"}

\* the attempts that end in PlaywrightTimeoutError: wait_for times out, or
\* the element is visible and click() times out
TimeoutKinds == {"not_visible", "click_timeout"}

\* the attempts that end in another Exception, of wait_for or of click()
OtherErrorKinds == {"wait_error", "click_error"}

\* `if attempt == retries:`
LastAttempt(attempt, retries) == attempt = retries

ClickInit ==
    /\ ScrapeInit
    /\ NavOff
    /\ ContextOff
    /\ SessionOff
    /\ InsertOff
    /\ RaiseOff
    /\ MergeOff
    /\ SimOff
    /\ FetchOff
    /\ ExtractOff
    /\ DiscoverOff
    /\ ExplainOff
    /\ BrowserOff
    /\ k_pc = "attempt"
    /\ k_operation \in ClickOperations
    /\ k_retries \in 0..MaxClickRetries
    /\ k_attempt = 0
    /\ k_history = << >>
    /\ k_clicks = 0
    /\ k_error = "none"

\* the element is visible and the click succeeds: `return`
K_Clicked ==
    /\ k_pc = "attempt"
    /\ k_attempt <= k_retries
    /\ k_history' = Append(k_history, "clicked")
    /\ k_clicks' = k_clicks + 1
    /\ k_pc' = "returned"
    /\ UNCHANGED << k_operation, k_retries, k_attempt, k_error >>
    /\ UNCHANGED besideClick

\* `except PlaywrightTimeoutError`: on the last attempt raise
\* PageHandlerElementNotFoundError, else wait before the next attempt
K_TimesOut(kind) ==
    /\ k_pc = "attempt"
    /\ k_attempt <= k_retries
    /\ k_history' = Append(k_history, kind)
    /\ IF LastAttempt(k_attempt, k_retries)
       THEN /\ k_pc' = "raised"
            /\ k_error' = "PageHandlerElementNotFoundError"
       ELSE /\ k_pc' = "settle"
            /\ k_error' = k_error
    /\ UNCHANGED << k_operation, k_retries, k_attempt, k_clicks >>
    /\ UNCHANGED besideClick

\* `except Exception`: raise PageHandlerError
K_OtherError(kind) ==
    /\ k_pc = "attempt"
    /\ k_attempt <= k_retries
    /\ k_history' = Append(k_history, kind)
    /\ k_pc' = "raised"
    /\ k_error' = "PageHandlerError"
    /\ UNCHANGED << k_operation, k_retries, k_attempt, k_clicks >>
    /\ UNCHANGED besideClick

\* wait_for_timeout(DEFAULT_WAIT) returns: the next turn of the loop
K_Settle ==
    /\ k_pc = "settle"
    /\ k_attempt' = k_attempt + 1
    /\ k_pc' = "attempt"
    /\ UNCHANGED << k_operation, k_retries, k_history, k_clicks, k_error >>
    /\ UNCHANGED besideClick

\* wait_for_timeout(DEFAULT_WAIT) raises inside the except clause: the
\* decorator raises PageHandlerError
K_SettleRaises ==
    /\ k_pc = "settle"
    /\ k_pc' = "raised"
    /\ k_error' = "PageHandlerError"
    /\ UNCHANGED << k_operation, k_retries, k_attempt, k_history, k_clicks >>
    /\ UNCHANGED besideClick

ClickNext ==
    \/ K_Clicked
    \/ \E kind \in TimeoutKinds : K_TimesOut(kind)
    \/ \E kind \in OtherErrorKinds : K_OtherError(kind)
    \/ K_Settle
    \/ K_SettleRaises

SpecClick == ClickInit /\ [][ClickNext]_vars

(***************************************************************************)
(* Properties of the click (checked under SpecClick).                      *)
(***************************************************************************)
\* the attempts in which the element became visible
VisibleKinds == {"clicked", "click_timeout", "click_error"}

\* the command has ended in attempt j: it returned, or raised the generic
\* error
EndedIn(j) ==
    /\ j = Len(k_history)
    /\ \/ k_pc = "returned"
       \/ k_pc = "raised" /\ k_error = "PageHandlerError"

\* C25: the call makes at most retries + 1 attempts (2 by default), clicks
\* at most once, and returns in the first attempt in which the element
\* becomes visible; when every attempt timed out it raises
\* PageHandlerElementNotFoundError, and any other error ends it at once
\* with a PageHandlerError that is not the element-not-found error.
C25_ClickRetry ==
    /\ Len(k_history) <= k_retries + 1
    /\ k_retries = DefaultRetries => Len(k_history) <= 2
    /\ k_clicks <= 1
    /\ \A j \in 1..Len(k_history) :
          /\ k_history[j] \in VisibleKinds => EndedIn(j)
          /\ k_history[j] \in OtherErrorKinds => EndedIn(j) /\ k_pc = "raised"
    /\ k_pc = "returned" =>
          k_clicks = 1 /\ k_history[Len(k_history)] = "clicked"
    /\ k_pc = "raised" /\ Len(k_history) = k_retries + 1
       /\ (\A j \in 1..Len(k_history) : k_history[j] \in TimeoutKinds) =>
          k_error = "PageHandlerElementNotFoundError"

(***************************************************************************)
(* exception_handler on its own: a step of the per-URL loop is called      *)
(* through the decorators that wrap it, and what its innermost function    *)
(* returns or raises comes back through them to the except clauses of the  *)
(* loop.                                                                   *)
(***************************************************************************)
\* the base class of an exception class
ParentClass(cls) ==
    CASE cls = "PageHandlerNavigationError"      -> "PageHandlerError"
      [] cls = "PageHandlerElementNotFoundError" -> "PageHandlerError"
      [] cls = "PageHandlerError"                -> "NZRoadCodeTestError"
      [] cls = "ExtractorError"                  -> "NZRoadCodeTestError"
      [] cls = "ScraperError"                    -> "NZRoadCodeTestError"
      [] cls = "NZRoadCodeTestError"             -> "Exception"
      [] cls = "TimeoutError"                    -> "Error"
      [] cls = "Error"                           -> "Exception"
      [] cls = "Exception"                       -> "BaseException"
      [] cls = "CancelledError"                  -> "BaseException"
      [] OTHER                                   -> "object"

RECURSIVE IsSubclass(_, _)

\* issubclass(cls, base)
IsSubclass(cls, base) ==
    IF cls = base THEN TRUE
    ELSE IF cls = "object" THEN FALSE
    ELSE IsSubclass(ParentClass(cls), base)

\* what a function gives: a value it returns or an exception it raises
Returned(value) == [kind |-> "return", value |-> value]

Raised(cls, cause) == [kind |-> "raise", cls |-> cls, cause |-> cause]

\* the steps of the loop: the error_cls of the decorators a call passes,
\* the outermost first, and what the innermost function may raise
Chains ==
    { [name |-> "goto_road_code_test",
       wrappers |-> << "ScraperError", "PageHandlerNavigationError" >>,
       raises |-> {"Exception", "PageHandlerError", "CancelledError"}],
      [name |-> "get_test_chapter",
       wrappers |-> << "ScraperError", "ExtractorError" >>,
       raises |-> {"Exception", "ExtractorError", "CancelledError"}],
      [name |-> "click_answer",
       wrappers |-> << "ScraperError", "PageHandlerError", "PageHandlerError" >>,
       raises |-> {"PageHandlerElementNotFoundError", "PageHandlerError",
                   "CancelledError"}],
      [name |-> "start_road_code_test",
       wrappers |-> << "ScraperError", "PageHandlerError", "PageHandlerError" >>,
       raises |-> {"PageHandlerElementNotFoundError", "PageHandlerError",
                   "CancelledError"}],
      [name |-> "finish_road_code_test",
       wrappers |-> << "ScraperError", "PageHandlerError", "PageHandlerError" >>,
       raises |-> {"PageHandlerElementNotFoundError", "PageHandlerError",
                   "CancelledError"}],
      [name |-> "_simulate_user_test_flow",
       wrappers |-> << "ScraperError" >>,
       raises |-> {"Exception", "ScraperError"}],
      [name |-> "open_answer_accordion",
       wrappers |-> << "PageHandlerError", "PageHandlerError" >>,
       raises |-> {"PageHandlerElementNotFoundError", "PageHandlerError",
                   "CancelledError"}],
      [name |-> "get_correct_answers_explanations",
       wrappers |-> << "ScraperError", "ExtractorError" >>,
       raises |-> {"Exception", "ExtractorError"}] }

ChainOf(name) == CHOOSE c \in Chains : c.name = name

\* the values a step returns
ReturnValues == {"None", "chapter"}

\* a decorator that wraps every Exception, the application's own too
HandlerWrapsAll(error_cls, result) ==
    IF result.kind = "raise" /\ IsSubclass(result.cls, "Exception")
    THEN Raised(error_cls, << result >>)
    ELSE result

\* the wrapper of exception_handler(error_cls, ...): what it gives for what
\* the function it wraps gave
HandlerOutcome(error_cls, result) ==
    IF result.kind = "return" THEN result
    ELSE IF IsSubclass(result.cls, "NZRoadCodeTestError") THEN result
    ELSE IF IsSubclass(result.cls, "Exception")
         THEN Raised(error_cls, << result >>)
    ELSE result

\* the wrapper logs the exception it converts
HandlerLogs(result) ==
    /\ result.kind = "raise"
    /\ ~IsSubclass(result.cls, "NZRoadCodeTestError")
    /\ IsSubclass(result.cls, "Exception")

\* a loop that catches ScraperError alone
CatchesScraperError(cls) == IsSubclass(cls, "ScraperError")

\* `except NZRoadCodeTestError` and `except Exception` of the per-URL loop
LoopCatches(cls) ==
    IsSubclass(cls, "NZRoadCodeTestError") \/ IsSubclass(cls, "Exception")

RaiseInit ==
    /\ ScrapeInit
    /\ NavOff
    /\ ContextOff
    /\ SessionOff
    /\ InsertOff
    /\ MergeOff
    /\ SimOff
    /\ FetchOff
    /\ ExtractOff
    /\ DiscoverOff
    /\ ExplainOff
    /\ BrowserOff
    /\ ClickOff
    /\ r_pc = "call"
    /\ r_chain \in { c.name : c \in Chains }
    /\ r_stack = ChainOf(r_chain).wrappers
    /\ r_origin = << >>
    /\ r_result = << >>
    /\ r_log = << >>

\* the innermost function returns
R_Returns(value) ==
    /\ r_pc = "call"
    /\ r_origin' = << Returned(value) >>
    /\ r_result' = << Returned(value) >>
    /\ r_pc' = "unwind"
    /\ UNCHANGED << r_chain, r_stack, r_log >>
    /\ UNCHANGED besideRaise

\* the innermost function raises an exception of class cls
R_Raises(cls) ==
    /\ r_pc = "call"
    /\ cls \in ChainOf(r_chain).raises
    /\ r_origin' = << Raised(cls, << >>) >>
    /\ r_result' = << Raised(cls, << >>) >>
    /\ r_pc' = "unwind"
    /\ UNCHANGED << r_chain, r_stack, r_log >>
    /\ UNCHANGED besideRaise

\* the innermost decorator not yet left handles what comes to it
R_Wrapper ==
    /\ r_pc = "unwind"
    /\ r_stack # << >>
    /\ LET error_cls == r_stack[Len(r_stack)]
       IN  /\ r_result' = << HandlerOutcome(error_cls, r_result[1]) >>
           /\ r_log' = IF HandlerLogs(r_result[1])
                       THEN Append(r_log, [level |-> "exception",
                                           by |-> error_cls])
                       ELSE r_log
    /\ r_stack' = SubSeq(r_stack, 1, Len(r_stack) - 1)
    /\ UNCHANGED << r_pc, r_chain, r_origin >>
    /\ UNCHANGED besideRaise

\* back in the loop: the step returned, or the except clauses log the
\* exception and go on to the next URL, or the exception leaves the loop
R_Loop ==
    /\ r_pc = "unwind"
    /\ r_stack = << >>
    /\ IF r_result[1].kind = "return"
       THEN r_pc' = "returned" /\ r_log' = r_log
       ELSE IF LoopCatches(r_result[1].cls)
            THEN /\ r_pc' = "skipped"
                 /\ r_log' = Append(r_log, [level |-> "error", by |-> "loop"])
            ELSE r_pc' = "left" /\ r_log' = r_log
    /\ UNCHANGED << r_chain, r_stack, r_origin, r_result >>
    /\ UNCHANGED besideRaise

RaiseNext ==
    \/ \E value \in ReturnValues : R_Returns(value)
    \/ \E cls \in UNION { c.raises : c \in Chains } : R_Raises(cls)
    \/ R_Wrapper
    \/ R_Loop

SpecRaise == RaiseInit /\ [][RaiseNext]_vars

(***************************************************************************)
(* Properties of the decorators (checked under SpecRaise).                 *)
(***************************************************************************)
\* the decorators the call has left so far
WrappersLeft == Len(ChainOf(r_chain).wrappers) - Len(r_stack)

\* error_cls of the innermost decorator
InnermostErrorCls ==
    ChainOf(r_chain).wrappers[Len(ChainOf(r_chain).wrappers)]

\* the innermost function raised an exception of (a subclass of) base
OriginIs(base) ==
    /\ r_origin # << >>
    /\ r_origin[1].kind = "raise"
    /\ IsSubclass(r_origin[1].cls, base)

\* an interaction failure or an extraction failure was raised
InteractionOrExtractionFailure ==
    OriginIs("PageHandlerError") \/ OriginIs("ExtractorError")

\* C27 as stated: an interaction or extraction failure raised while a
\* chapter is processed is a ScraperError when it reaches the except
\* clauses of the loop, which turn it into skipping the chapter.
C27_EscalatesToScraperError ==
    r_pc = "skipped" /\ InteractionOrExtractionFailure =>
        IsSubclass(r_result[1].cls, "ScraperError")

\* C27, amended: an interaction or extraction failure raised while a
\* chapter is processed reaches the except clauses of the loop unchanged,
\* as the PageHandlerError or ExtractorError it was raised as, and is
\* there logged and turned into skipping the chapter.
C27_ReachesLoopUnchanged ==
    InteractionOrExtractionFailure =>
        /\ r_result = r_origin
        /\ r_pc # "left"
        /\ r_pc = "unwind" /\ r_stack = << >> => ENABLED R_Loop
        /\ r_pc = "skipped" =>
              r_log = << [level |-> "error", by |-> "loop"] >>

\* click_answer raised PageHandlerElementNotFoundError and the loop skipped
\* the chapter
C27_Witness ==
    /\ r_pc = "skipped"
    /\ r_chain = "click_answer"
    /\ r_origin = << Raised("PageHandlerElementNotFoundError", << >>) >>
    /\ r_result = r_origin

\* C30: a function wrapped by exception_handler(error_cls, ...) gives what
\* it gave unchanged when it returns a value or raises an
\* NZRoadCodeTestError (or subclass), and raises an error_cls chained to the
\* original when it raises another Exception.
C30_HandlerPassesOrWraps ==
    WrappersLeft >= 1 =>
        /\ r_origin[1].kind = "return" => r_result = r_origin
        /\ OriginIs("NZRoadCodeTestError") => r_result = r_origin
        /\ OriginIs("Exception") /\ ~OriginIs("NZRoadCodeTestError") =>
              /\ r_result[1].kind = "raise"
              /\ r_result[1].cls = InnermostErrorCls
              /\ r_result[1].cause = r_origin

\* page.goto raised a plain Exception and it left goto_road_code_test as a
\* PageHandlerNavigationError chained to it
C30_Witness ==
    /\ r_chain = "goto_road_code_test"
    /\ WrappersLeft = 1
    /\ r_origin = << Raised("Exception", << >>) >>
    /\ r_result = << Raised("PageHandlerNavigationError", r_origin) >>

\* an ExtractorError left both decorators of get_test_chapter unchanged
C30_WitnessUnchanged ==
    /\ r_chain = "get_test_chapter"
    /\ WrappersLeft = 2
    /\ r_origin = << Raised("ExtractorError", << >>) >>
    /\ r_result = r_origin

(***************************************************************************)
(* ChapterService.insert_chapter and chapter_exists on their own, called   *)
(* in any order on one session after another.                              *)
(***************************************************************************)
\* the chapters handed to insert_chapter: those the site serves
InsertInputs == { SitePage(url) : url \in 1..5 }

\* the rows the session holds: flushed, or still pending
Staged(t, pend) == RowsUnion(t, PendingRows(pend))

InsertInit ==
    /\ ScrapeInit
    /\ NavOff
    /\ ContextOff
    /\ SessionOff
    /\ MergeOff
    /\ SimOff
    /\ FetchOff
    /\ ExtractOff
    /\ DiscoverOff
    /\ ExplainOff
    /\ BrowserOff
    /\ ClickOff
    /\ RaiseOff
    /\ i_sess = "active"
    /\ i_db = EmptyRows
    /\ i_txn = EmptyRows
    /\ i_pending = << >>
    /\ i_last = [op |-> "none"]

\* what a call remembers of the state before it
Before(op, ch) ==
    [op |-> op, chapter |-> ch, db |-> i_db, staged |-> Staged(i_txn, i_pending)]

\* an insert that stages the chapter without the existence check
I_InsertAlways(ch) ==
    /\ i_sess = "active"
    /\ ~FlushFails(i_pending, i_txn, i_db)
    /\ i_txn' = Staged(i_txn, i_pending)
    /\ i_pending' = << ch >>
    /\ i_last' = Before("insert", ch)
                    @@ [ended |-> "returned", result |-> TRUE]
    /\ UNCHANGED << i_sess, i_db >>
    /\ UNCHANGED besideInsert

\* insert_chapter(ch): the existence query flushes the pending chapters;
\* the chapter is added to the session unless it exists
I_InsertChapter(ch) ==
    /\ i_sess = "active"
    /\ ~FlushFails(i_pending, i_txn, i_db)
    /\ i_txn' = Staged(i_txn, i_pending)
    /\ IF ChapterExists(ch.id, i_txn', i_db)
       THEN /\ i_pending' = << >>
            /\ i_last' = Before("insert", ch) @@ [ended |-> "returned", result |-> FALSE]
       ELSE /\ i_pending' = << ch >>
            /\ i_last' = Before("insert", ch)
                    @@ [ended |-> "returned", result |-> TRUE]
    /\ UNCHANGED << i_sess, i_db >>
    /\ UNCHANGED besideInsert

\* chapter_exists(ch.id)
I_ChapterExists(ch) ==
    /\ i_sess = "active"
    /\ ~FlushFails(i_pending, i_txn, i_db)
    /\ i_txn' = Staged(i_txn, i_pending)
    /\ i_pending' = << >>
    /\ i_last' = Before("exists", ch)
                    @@ [ended |-> "returned",
                        result |-> ChapterExists(ch.id, i_txn', i_db)]
    /\ UNCHANGED << i_sess, i_db >>
    /\ UNCHANGED besideInsert

\* the query of either call raises (ChapterServiceError): the session is
\* inactive already or the flush of the pending chapters fails, and the
\* transaction is rolled back; or the statement alone fails
I_QueryRaises(op, ch) ==
    /\ IF i_sess = "inactive" \/ FlushFails(i_pending, i_txn, i_db)
       THEN /\ i_sess' = "inactive"
            /\ i_txn' = EmptyRows
       ELSE /\ i_sess' = i_sess
            /\ i_txn' = Staged(i_txn, i_pending)
    /\ i_pending' = << >>
    /\ i_last' = Before(op, ch) @@ [ended |-> "raised"]
    /\ UNCHANGED i_db
    /\ UNCHANGED besideInsert

\* DBHelper.create_session: commit() succeeds, the session is closed, and a
\* new session begins
I_Commit ==
    /\ i_sess = "active"
    /\ ~FlushFails(i_pending, i_txn, i_db)
    /\ i_db' = RowsUnion(i_db, Staged(i_txn, i_pending))
    /\ i_txn' = EmptyRows
    /\ i_pending' = << >>
    /\ i_last' = [op |-> "commit"]
    /\ UNCHANGED i_sess
    /\ UNCHANGED besideInsert

\* DBHelper.create_session: the session is rolled back and closed without
\* a commit, and a new session begins
I_Rollback ==
    /\ i_sess' = "active"
    /\ i_txn' = EmptyRows
    /\ i_pending' = << >>
    /\ i_last' = [op |-> "rollback"]
    /\ UNCHANGED i_db
    /\ UNCHANGED besideInsert

InsertNext ==
    \/ \E ch \in InsertInputs : I_InsertChapter(ch)
    \/ \E ch \in InsertInputs : I_ChapterExists(ch)
    \/ \E op \in {"insert", "exists"}, ch \in InsertInputs : I_QueryRaises(op, ch)
    \/ I_Commit
    \/ I_Rollback

SpecInsert == InsertInit /\ [][InsertNext]_vars

(***************************************************************************)
(* Properties of insert_chapter (checked under SpecInsert).                *)
(***************************************************************************)
\* the rows hold a chapter row with that id
HasChapterRow(rows, chapter_id) == \E r \in rows.chapters : r.id = chapter_id

\* the rows hold every row of the chapter: its own, its questions', its
\* answers'
HoldsChapter(rows, ch) ==
    /\ CreateChapter(ch).chapters \subseteq rows.chapters
    /\ CreateChapter(ch).questions \subseteq rows.questions
    /\ CreateChapter(ch).answers \subseteq rows.answers

\* C29: insert_chapter returns False and leaves the rows of the session
\* and of the store as they were when a chapter with that id exists;
\* otherwise it returns True and the session then holds the chapter with
\* all its questions and answers, the store being as it was; and a
\* chapter_exists for a chapter the session or the store holds gives True.
C29_InsertChapter ==
    /\ i_last.op = "insert" /\ i_last.ended = "returned" =>
          LET existed == HasChapterRow(RowsUnion(i_last.db, i_last.staged),
                                       i_last.chapter.id)
              now == Staged(i_txn, i_pending)
          IN  /\ i_last.result = ~existed
              /\ i_db = i_last.db
              /\ existed => now = i_last.staged
              /\ ~existed =>
                    /\ now = RowsUnion(i_last.staged,
                                       CreateChapter(i_last.chapter))
                    /\ HoldsChapter(now, i_last.chapter)
                    /\ HasChapterRow(now, i_last.chapter.id)
    /\ i_last.op = "exists" /\ i_last.ended = "returned" =>
          i_last.result = HasChapterRow(RowsUnion(i_last.db, i_last.staged),
                                        i_last.chapter.id)

\* insert_chapter returned False for a chapter the store holds
C29_Witness ==
    /\ i_last.op = "insert"
    /\ i_last.ended = "returned"
    /\ i_last.result = FALSE
    /\ i_last.chapter = SitePage(2)
    /\ HoldsChapter(i_db, SitePage(2))

\* insert_chapter returned True and the session holds the chapter's rows
C29_WitnessStaged ==
    /\ i_last.op = "insert"
    /\ i_last.ended = "returned"
    /\ i_last.result = TRUE
    /\ i_last.chapter = SitePage(2)
    /\ i_pending = << SitePage(2) >>
    /\ HoldsChapter(i_db, SitePage(1))

(***************************************************************************)
(* DBHelper.create_session on its own: one with block after another, with  *)
(* any body.                                                               *)
(***************************************************************************)
\* what the body of the with block can raise: a database error, another
\* Exception, a BaseException
BodyErrors == {"SQLAlchemyError", "ChapterServiceError", "CancelledError"}

\* the chapters a body adds to the session
SessionInputs == { SitePage(url) : url \in 1..3 }

\* a context manager that commits however the body ended
AfterBodyCommits(body) == "commit"

\* where create_session continues when the body has ended: commit() after
\* the yield, the except clause for a SQLAlchemyError, else the finally
AfterBody(body) ==
    IF body = "returned" THEN "commit"
    ELSE IF body = "SQLAlchemyError" THEN "except"
    ELSE "finally"

SessionInit ==
    /\ ScrapeInit
    /\ NavOff
    /\ ContextOff
    /\ MergeOff
    /\ SimOff
    /\ FetchOff
    /\ ExtractOff
    /\ DiscoverOff
    /\ ExplainOff
    /\ BrowserOff
    /\ ClickOff
    /\ RaiseOff
    /\ InsertOff
    /\ c_pc = "body"
    /\ c_db = EmptyRows
    /\ c_txn = EmptyRows
    /\ c_before = EmptyRows
    /\ c_body = "none"
    /\ c_error = "none"
    /\ c_calls = << >>
    /\ c_outcome = "none"

\* the body adds a chapter to the session and flushes it
C_BodyAdds(ch) ==
    /\ c_pc = "body"
    /\ ~PKTaken(CreateChapter(ch), c_txn)
    /\ c_txn' = RowsUnion(c_txn, CreateChapter(ch))
    /\ UNCHANGED << c_pc, c_db, c_before, c_body, c_error, c_calls, c_outcome >>
    /\ UNCHANGED besideSession

\* the body completes
C_BodyReturns ==
    /\ c_pc = "body"
    /\ c_body' = "returned"
    /\ c_pc' = AfterBody("returned")
    /\ UNCHANGED << c_db, c_txn, c_before, c_error, c_calls, c_outcome >>
    /\ UNCHANGED besideSession

\* the body raises: the exception is thrown into the generator at the yield
C_BodyRaises(cls) ==
    /\ c_pc = "body"
    /\ c_body' = cls
    /\ c_error' = cls
    /\ c_pc' = AfterBody(cls)
    /\ UNCHANGED << c_db, c_txn, c_before, c_calls, c_outcome >>
    /\ UNCHANGED besideSession

\* session.commit() succeeds
C_Commit ==
    /\ c_pc = "commit"
    /\ ~PKTaken(c_txn, c_db)
    /\ c_calls' = Append(c_calls, "commit")
    /\ c_db' = RowsUnion(c_db, c_txn)
    /\ c_txn' = EmptyRows
    /\ c_pc' = "finally"
    /\ UNCHANGED << c_before, c_body, c_error, c_outcome >>
    /\ UNCHANGED besideSession

\* session.commit() raises a SQLAlchemyError and commits nothing
C_CommitRaises ==
    /\ c_pc = "commit"
    /\ c_calls' = Append(c_calls, "commit raised")
    /\ c_error' = "SQLAlchemyError"
    /\ c_pc' = "except"
    /\ UNCHANGED << c_db, c_txn, c_before, c_body, c_outcome >>
    /\ UNCHANGED besideSession

\* except SQLAlchemyError: session.rollback(), raise DBHelperError
C_Rollback ==
    /\ c_pc = "except"
    /\ c_calls' = Append(c_calls, "rollback")
    /\ c_txn' = EmptyRows
    /\ c_error' = "DBHelperError"
    /\ c_pc' = "finally"
    /\ UNCHANGED << c_db, c_before, c_body, c_outcome >>
    /\ UNCHANGED besideSession

\* finally: session.close(), which ends any transaction left open
C_Close ==
    /\ c_pc = "finally"
    /\ c_calls' = Append(c_calls, "close")
    /\ c_txn' = EmptyRows
    /\ c_outcome' = IF c_error = "none" THEN "returned" ELSE c_error
    /\ c_pc' = "done"
    /\ UNCHANGED << c_db, c_before, c_body, c_error >>
    /\ UNCHANGED besideSession

\* create_session is called again
C_CreateSession ==
    /\ c_pc = "done"
    /\ c_pc' = "body"
    /\ c_before' = c_db
    /\ c_body' = "none"
    /\ c_error' = "none"
    /\ c_calls' = << >>
    /\ c_outcome' = "none"
    /\ UNCHANGED << c_db, c_txn >>
    /\ UNCHANGED besideSession

SessionNext ==
    \/ \E ch \in SessionInputs : C_BodyAdds(ch)
    \/ C_BodyReturns
    \/ \E cls \in BodyErrors : C_BodyRaises(cls)
    \/ C_Commit
    \/ C_CommitRaises
    \/ C_Rollback
    \/ C_Close
    \/ C_CreateSession

SpecSession == SessionInit /\ [][SessionNext]_vars

(***************************************************************************)
(* Properties of create_session (checked under SpecSession).               *)
(***************************************************************************)
\* the number of calls of that name made on the session
CallCount(name) == Cardinality({ k \in 1..Len(c_calls) : c_calls[k] = name })

\* C31: commit() is called only when the body completed without raising;
\* when the body or the commit raised, nothing of the session reaches the
\* store and its transaction is ended; and the session is closed exactly
\* once however the with block ends.
C31_CommitRollbackClose ==
    /\ CallCount("commit") + CallCount("commit raised") > 0 =>
          c_body = "returned"
    /\ CallCount("close") <= 1
    /\ c_pc = "done" =>
          /\ CallCount("close") = 1
          /\ c_calls[Len(c_calls)] = "close"
          /\ c_txn = EmptyRows
          /\ c_db # c_before => c_body = "returned" /\ c_outcome = "returned"
          /\ c_body # "returned" \/ CallCount("commit raised") > 0 =>
                /\ c_db = c_before
                /\ c_outcome # "returned"
          /\ c_body = "SQLAlchemyError" \/ CallCount("commit raised") > 0 =>
                CallCount("rollback") = 1
          /\ c_outcome = "returned" => CallCount("commit") = 1

\* a body that added a chapter raised an exception that is no database
\* error: the session was closed and the store is as it was
C31_Witness ==
    /\ c_pc = "done"
    /\ c_body = "ChapterServiceError"
    /\ c_calls = << "close" >>
    /\ c_db = CreateChapter(SitePage(1))
    /\ c_before = c_db

\* the commit raised: rollback, then close
C31_WitnessCommitRaised ==
    /\ c_pc = "done"
    /\ c_calls = << "commit raised", "rollback", "close" >>
    /\ c_outcome = "DBHelperError"

(***************************************************************************)
(* The async context of a Scraper and the calls of scrape on it, in any    *)
(* order.                                                                  *)
(***************************************************************************)
MaxContextCalls == 5

\* a check that lets every call through
EnsureSkipped(page_field, cm) == TRUE

\* Scraper._ensure_initialized passes
EnsureInitialized(page_field, cm) == ~(page_field = "None" \/ cm = "None")

ContextInit ==
    /\ ScrapeInit
    /\ NavOff
    /\ MergeOff
    /\ SimOff
    /\ FetchOff
    /\ ExtractOff
    /\ DiscoverOff
    /\ ExplainOff
    /\ BrowserOff
    /\ ClickOff
    /\ RaiseOff
    /\ InsertOff
    /\ SessionOff
    /\ n_page = "None"
    /\ n_cm = "None"
    /\ n_life = "new"
    /\ n_trace = << >>

\* an event of the trace: the call, the state of the context it was made
\* in, and what it did
Event(call, did) == [call |-> call, life |-> n_life, did |-> did]

\* __aenter__: the page context manager is kept and entered
N_Enter ==
    /\ Len(n_trace) < MaxContextCalls
    /\ n_life # "entered"
    /\ n_cm' = "cm"
    /\ n_page' = "page"
    /\ n_life' = "entered"
    /\ n_trace' = Append(n_trace, Event("__aenter__", "returned"))
    /\ UNCHANGED besideContext

\* __aenter__: entering the page context manager raises; the manager is
\* kept, the page is not set, ScraperError is raised
N_EnterRaises ==
    /\ Len(n_trace) < MaxContextCalls
    /\ n_life # "entered"
    /\ n_cm' = "cm"
    /\ n_page' = n_page
    /\ n_life' = "entry failed"
    /\ n_trace' = Append(n_trace, Event("__aenter__", "ScraperError"))
    /\ UNCHANGED besideContext

\* __aexit__: the page context manager is exited, an error of it is
\* logged, both fields are reset
N_Exit(cleanup) ==
    /\ Len(n_trace) < MaxContextCalls
    /\ n_life = "entered"
    /\ n_cm' = "None"
    /\ n_page' = "None"
    /\ n_life' = "exited"
    /\ n_trace' = Append(n_trace, Event("__aexit__", cleanup))
    /\ UNCHANGED besideContext

\* scrape: _ensure_initialized raises ScraperError, which the
\* exception_handler of scrape passes on unchanged
N_ScrapeRaises ==
    /\ Len(n_trace) < MaxContextCalls
    /\ ~EnsureInitialized(n_page, n_cm)
    /\ n_trace' = Append(n_trace, Event("scrape", "ScraperError"))
    /\ UNCHANGED << n_page, n_cm, n_life >>
    /\ UNCHANGED besideContext

\* scrape: _ensure_initialized passes and the run begins with the
\* navigation to the landing page
N_ScrapeRuns ==
    /\ Len(n_trace) < MaxContextCalls
    /\ EnsureInitialized(n_page, n_cm)
    /\ n_trace' = Append(n_trace, Event("scrape", "goto_road_code_page"))
    /\ UNCHANGED << n_page, n_cm, n_life >>
    /\ UNCHANGED besideContext

ContextNext ==
    \/ N_Enter
    \/ N_EnterRaises
    \/ \E cleanup \in {"returned", "logged"} : N_Exit(cleanup)
    \/ N_ScrapeRaises
    \/ N_ScrapeRuns

SpecContext == ContextInit /\ [][ContextNext]_vars

(***************************************************************************)
(* Properties of the Scraper context (checked under SpecContext).          *)
(***************************************************************************)
\* C32: a scrape called on a Scraper that was never entered, whose entry
\* failed or that has exited raises ScraperError and does nothing else; a
\* scrape called on an entered Scraper begins the run.
C32_ScrapeNeedsContext ==
    \A k \in 1..Len(n_trace) :
        n_trace[k].call = "scrape" =>
            IF n_trace[k].life = "entered"
            THEN n_trace[k].did = "goto_road_code_page"
            ELSE n_trace[k].did = "ScraperError"

\* scrape was called after a failed entry, which left the page context
\* manager set, and after an exit
C32_Witness ==
    /\ Len(n_trace) = 4
    /\ n_trace[1].did = "returned" /\ n_trace[1].call = "__aenter__"
    /\ n_trace[2].call = "__aexit__"
    /\ n_trace[3].call = "__aenter__" /\ n_trace[3].did = "ScraperError"
    /\ n_trace[4].call = "scrape" /\ n_trace[4].life = "entry failed"
    /\ n_trace[4].did = "ScraperError"
    /\ n_cm = "cm"

(***************************************************************************)
(* The navigation commands of PageHandler on their own:                    *)
(* goto_road_code_page and goto_road_code_test.                            *)
(***************************************************************************)
\* the calls of the navigation commands
NavCommands ==
    { << "goto_road_code_page" >> }
        \cup { << "goto_road_code_test", url >> : url \in Urls }

\* what a call on the page can raise: Playwright's TimeoutError, another
\* Playwright Error, a cancellation
PageErrors == {"TimeoutError", "Error", "CancelledError"}

\* wait_for_page_ready: what its except clauses make of an exception
\* raised inside it
ReadyOutcome(cls) ==
    IF IsSubclass(cls, "TimeoutError")
    THEN Raised("PageHandlerError", << Raised(cls, << >>) >>)
    ELSE IF IsSubclass(cls, "Exception")
         THEN Raised("PageHandlerError", << Raised(cls, << >>) >>)
    ELSE Raised(cls, << >>)

NavInit ==
    /\ ScrapeInit
    /\ MergeOff
    /\ SimOff
    /\ FetchOff
    /\ ExtractOff
    /\ DiscoverOff
    /\ ExplainOff
    /\ BrowserOff
    /\ ClickOff
    /\ RaiseOff
    /\ InsertOff
    /\ SessionOff
    /\ ContextOff
    /\ g_pc = "goto"
    /\ g_command \in NavCommands
    /\ g_steps = << >>
    /\ g_result = << >>

\* page.goto(url) succeeds
G_Goto ==
    /\ g_pc = "goto"
    /\ g_steps' = Append(g_steps, << "goto", "ok" >>)
    /\ g_pc' = "wait_for"
    /\ UNCHANGED << g_command, g_result >>
    /\ UNCHANGED besideNav

\* page.goto(url) raises: the command logs and re-raises
G_GotoRaises(cls) ==
    /\ g_pc = "goto"
    /\ g_steps' = Append(g_steps, << "goto", cls >>)
    /\ g_result' = << Raised(cls, << >>) >>
    /\ g_pc' = "decorator"
    /\ UNCHANGED g_command
    /\ UNCHANGED besideNav

\* wait_for_page_ready: the body becomes visible
G_BodyVisible ==
    /\ g_pc = "wait_for"
    /\ g_steps' = Append(g_steps, << "wait_for", "ok" >>)
    /\ g_pc' = "wait_for_timeout"
    /\ UNCHANGED << g_command, g_result >>
    /\ UNCHANGED besideNav

\* wait_for_page_ready: the wait for the body raises (TimeoutError when it
\* is not visible in time)
G_BodyWaitRaises(cls) ==
    /\ g_pc = "wait_for"
    /\ g_steps' = Append(g_steps, << "wait_for", cls >>)
    /\ g_result' = << ReadyOutcome(cls) >>
    /\ g_pc' = "decorator"
    /\ UNCHANGED g_command
    /\ UNCHANGED besideNav

\* wait_for_page_ready: the pause after the body is visible ends, and the
\* command returns
G_Pause ==
    /\ g_pc = "wait_for_timeout"
    /\ g_steps' = Append(g_steps, << "wait_for_timeout", "ok" >>)
    /\ g_result' = << Returned("None") >>
    /\ g_pc' = "decorator"
    /\ UNCHANGED g_command
    /\ UNCHANGED besideNav

\* wait_for_page_ready: the pause raises
G_PauseRaises(cls) ==
    /\ g_pc = "wait_for_timeout"
    /\ cls # "TimeoutError"
    /\ g_steps' = Append(g_steps, << "wait_for_timeout", cls >>)
    /\ g_result' = << ReadyOutcome(cls) >>
    /\ g_pc' = "decorator"
    /\ UNCHANGED g_command
    /\ UNCHANGED besideNav

\* the wrapper of exception_handler(PageHandlerNavigationError, ...)
G_Decorator ==
    /\ g_pc = "decorator"
    /\ g_result' = << HandlerOutcome("PageHandlerNavigationError", g_result[1]) >>
    /\ g_pc' = IF g_result[1].kind = "return" THEN "returned" ELSE "raised"
    /\ UNCHANGED << g_command, g_steps >>
    /\ UNCHANGED besideNav

NavNext ==
    \/ G_Goto
    \/ \E cls \in PageErrors : G_GotoRaises(cls)
    \/ G_BodyVisible
    \/ \E cls \in PageErrors : G_BodyWaitRaises(cls)
    \/ G_Pause
    \/ \E cls \in PageErrors : G_PauseRaises(cls)
    \/ G_Decorator

SpecNav == NavInit /\ [][NavNext]_vars

(***************************************************************************)
(* Properties of the navigation commands (checked under SpecNav).          *)
(***************************************************************************)
\* the call on the page ended that way
StepEnded(call, how) ==
    \E k \in 1..Len(g_steps) : g_steps[k] = << call, how >>

\* a call on the page failed with an Exception
NavStepFailed ==
    \E k \in 1..Len(g_steps) : IsSubclass(g_steps[k][2], "Exception")

\* C33: a navigation command returns only after page.goto succeeded and
\* the body became visible, and every failure of it, the body not becoming
\* visible in time included, is raised as PageHandlerNavigationError.
C33_NavigationError ==
    /\ g_pc = "returned" =>
          StepEnded("goto", "ok") /\ StepEnded("wait_for", "ok")
    /\ g_pc = "raised" /\ NavStepFailed =>
          IsSubclass(g_result[1].cls, "PageHandlerNavigationError")

====
